---- MODULE Spec2Model ----
(***************************************************************************)
(* A model of the audiobook folder organizer: the folder-name parser, the  *)
(* path sanitizer, the metadata cache and the concurrent orchestrator      *)
(* (organize_audiobooks / _process_folder).                                *)
(*                                                                         *)
(* Text is modelled as a sequence of one-character strings, so that        *)
(* trimming, case mapping, pattern matching and character removal are      *)
(* computed the way the code computes them.                                *)
(***************************************************************************)
EXTENDS Integers, Sequences, FiniteSets, TLC

VARIABLES
    parseName,      \* folder leaf name handed to parse_folder
    parseResult,    \* what parse_folder returned for it
    parseDone,      \* parse_folder has returned
    sanInput,       \* string handed to sanitize_filename
    sanOnce,        \* sanitize_filename(sanInput)
    sanTwice,       \* sanitize_filename(sanitize_filename(sanInput))
    sanStep,        \* how many times sanitize_filename has been applied
    cacheData,      \* MetadataCache._cache_data: key -> entry
    cacheFile,      \* content of metadata_cache.json
    cacheClock,     \* time.time()
    cacheLast,      \* the last call made on the cache and what it returned
    cacheOps,       \* number of calls made on the cache
    cacheSets,      \* the set calls made since the last clear, in order
    cfg,            \* the flags organize_audiobooks was called with
    run,            \* folders_to_process: the source folders found
    inputDir,       \* the folders now in the input directory
    srcFiles,       \* the files of each source folder, with their tags
    outParents,     \* directories of the output tree above the book folders
    outBooks,       \* book folders of the output tree and what each holds
    outBooks0,      \* outBooks when the run started
    pc,             \* the stage each folder's task is at
    audiobook,      \* the Audiobook each task has resolved
    loaded,         \* _cache_data of the MetadataCache each task created
    updated,        \* tag_stats["files_updated"] of each task
    target,         \* target_path of each task
    existed,        \* what target_path.exists() gave each task
    failedAt,       \* the call of the task that raised an OSError, if one did
    result,         \* what each task returned or raised
    mainState,      \* where organize_audiobooks is
    collected,      \* tasks whose future the main thread has taken
    printed,        \* tasks whose message or error text was printed
    processed_count,
    summary,        \* the final line once printed
    fetchBook,      \* the audiobook fetch_book_details is called for
    fetchUseCache,  \* use_cache of the call
    fetchFile0,     \* the cache file when the call started
    fetchPc,        \* where the call is
    fetchConsulted, \* the call has created its MetadataCache
    fetchLoaded,    \* _cache_data of that MetadataCache
    fetchRequests,  \* number of requests.get calls made
    fetchResponse,  \* what requests.get answered
    fetchReturn,    \* what fetch_book_details returned or that it raised
    fetchAfter,     \* the audiobook after lines 151-153 of _process_folder
    fetchInferred,  \* the audiobook after lines 159-163 of _process_folder
    pathCall,       \* one call of Audiobook.get_target_path and its outcome
    cliRun,         \* one run of the command-line entry point
    inferCall,      \* one call of infer_genre_from_text and its outcome
    scanCall,       \* one call of extract_metadata_from_folder
    tagCall         \* one call of AudioTagger.update_tags

parserVars == <<parseName, parseResult, parseDone>>
sanVars == <<sanInput, sanOnce, sanTwice, sanStep>>
cacheVars == <<cacheData, cacheFile, cacheClock, cacheLast, cacheOps, cacheSets>>
workerVars == <<pc, audiobook, loaded, updated, target, existed, failedAt, result>>
mainView == <<mainState, collected, printed, processed_count, summary>>
orchVars == <<cfg, run, inputDir, srcFiles, outParents, outBooks, outBooks0,
              workerVars, mainView>>
fetchVars == <<fetchBook, fetchUseCache, fetchFile0, fetchPc, fetchConsulted,
               fetchLoaded, fetchRequests, fetchResponse, fetchReturn, fetchAfter,
               fetchInferred>>
extraVars == <<fetchVars, pathCall, cliRun, inferCall, scanCall, tagCall>>
vars == <<parserVars, sanVars, extraVars, cacheVars, orchVars, extraVars>>

----------------------------------------------------------------------------
(* Bounds of the model *)

\* longest generated folder name handed to the parser
MaxNameLen == 7
\* longest generated string handed to the sanitizer
MaxSanLen == 3
\* number of calls made on one cache object
MaxCacheOps == 3
\* largest number of source folders in the input directory
NumFolders == 2

----------------------------------------------------------------------------
(* Text helpers *)

Str(S, n) == UNION {[1..k -> S] : k \in 0..n}

SetMax(S) == CHOOSE x \in S : \A y \in S : y <= x
SetMin(S) == CHOOSE x \in S : \A y \in S : x <= y

UpperLetters ==
    <<"A","B","C","D","E","F","G","H","I","J","K","L","M",
      "N","O","P","Q","R","S","T","U","V","W","X","Y","Z">>
LowerLetters ==
    <<"a","b","c","d","e","f","g","h","i","j","k","l","m",
      "n","o","p","q","r","s","t","u","v","w","x","y","z">>

\* str.lower(), per character
LowerChar(c) ==
    IF \E i \in 1..26 : UpperLetters[i] = c
    THEN LowerLetters[CHOOSE i \in 1..26 : UpperLetters[i] = c]
    ELSE c
Lower(s) == [i \in 1..Len(s) |-> LowerChar(s[i])]

\* str.upper(), per character
UpperChar(c) ==
    IF \E i \in 1..26 : LowerLetters[i] = c
    THEN UpperLetters[CHOOSE i \in 1..26 : LowerLetters[i] = c]
    ELSE c
Upper(s) == [i \in 1..Len(s) |-> UpperChar(s[i])]

\* the characters str.strip() removes from both ends
IsSpace(c) == c \in {" ", "\t", "\n", "\r", "\f"}

\* str.strip()
Strip(s) ==
    LET keep == {i \in 1..Len(s) : ~IsSpace(s[i])}
    IN  IF keep = {} THEN <<>> ELSE SubSeq(s, SetMin(keep), SetMax(keep))

\* str.startswith(p)
StartsWith(s, p) == Len(s) >= Len(p) /\ SubSeq(s, 1, Len(p)) = p

\* the length of the longest run of characters outside Stop that starts at
\* s[i] (a greedy character class at the end of a pattern)
RECURSIVE RunLen(_, _, _)
RunLen(s, i, Stop) ==
    IF i > Len(s) \/ s[i] \in Stop THEN 0 ELSE 1 + RunLen(s, i + 1, Stop)

UnknownAuthor == <<"U","n","k","n","o","w","n"," ","A","u","t","h","o","r">>
UnknownTitle == <<"U","n","k","n","o","w","n"," ","T","i","t","l","e">>
UnknownGenre == <<"U","n","k","n","o","w","n"," ","G","e","n","r","e">>
UnknownYear == <<"0","0","0","0">>
Fiction == <<"F","i","c","t","i","o","n">>
Year2001 == <<"2","0","0","1">>

----------------------------------------------------------------------------
(* Folder-name parser: audiobookz_organizer/parser.py *)

\* Python's None
NoAudiobook == [found |-> FALSE]

\* Audiobook(source_path, author, title) with the dataclass defaults
Audiobook(author, title) ==
    [found |-> TRUE, author |-> author, title |-> title,
     genre |-> UnknownGenre, year |-> UnknownYear]

Delim == <<" ", "-", " ">>

\* re.match of (?P<title>.+) - (?P<author>[^-]+): the greedy .+ ends at the
\* last delimiter that a non-hyphen character follows; . matches no newline
TitleAuthorSplits(s) ==
    {k \in 1..(Len(s) - 4) :
        /\ \A i \in 1..k : s[i] # "\n"
        /\ SubSeq(s, k + 1, k + 3) = Delim
        /\ s[k + 4] # "-"}

MatchTitleAuthor(s) ==
    IF TitleAuthorSplits(s) = {} THEN NoAudiobook
    ELSE LET k == SetMax(TitleAuthorSplits(s))
             n == RunLen(s, k + 4, {"-"})
         IN  Audiobook(Strip(SubSeq(s, k + 4, k + 3 + n)),
                       Strip(SubSeq(s, 1, k)))

\* re.match of (?P<author>[^-]+) - (?P<title>.+): the author group holds no
\* hyphen, so the delimiter is the one around the first hyphen of the name
AuthorTitleSplits(s) ==
    {k \in 1..(Len(s) - 4) :
        /\ \A i \in 1..k : s[i] # "-"
        /\ SubSeq(s, k + 1, k + 3) = Delim
        /\ s[k + 4] # "\n"}

MatchAuthorTitle(s) ==
    IF AuthorTitleSplits(s) = {} THEN NoAudiobook
    ELSE LET k == SetMax(AuthorTitleSplits(s))
             n == RunLen(s, k + 4, {"\n"})
         IN  Audiobook(Strip(SubSeq(s, 1, k)),
                       Strip(SubSeq(s, k + 4, k + 3 + n)))

Articles == {<<"t","h","e"," ">>, <<"a"," ">>, <<"a","n"," ">>}

\* candidate.author.lower().startswith(("the ", "a ", "an "))
HasLeadingArticle(author) == \E p \in Articles : StartsWith(Lower(author), p)

\* for comparison: a parser that tries the author-first template first
ParseFolderAuthorFirst(name) ==
    LET candidate == MatchAuthorTitle(name)
    IN  IF candidate.found THEN candidate ELSE MatchTitleAuthor(name)

\* for comparison: a parser without the leading-article test
ParseFolderNoHeuristic(name) ==
    LET candidate == MatchTitleAuthor(name)
    IN  IF candidate.found THEN candidate ELSE MatchAuthorTitle(name)

parse_folder(name) ==
    LET candidate == MatchTitleAuthor(name)
    IN  IF candidate.found /\ ~HasLeadingArticle(candidate.author)
        THEN candidate
        ELSE MatchAuthorTitle(name)

----------------------------------------------------------------------------
(* Path sanitizer: audiobookcleanr/utils.py *)

\* the character class of _illegal_pattern
IllegalChars == {"<", ">", ":", "\"", "/", "\\", "|", "?", "*"}

\* for comparison: a sanitizer that removes the first illegal character only
RECURSIVE DropFirstIllegal(_)
DropFirstIllegal(s) ==
    IF s = <<>> THEN <<>>
    ELSE IF Head(s) \in IllegalChars THEN Tail(s)
    ELSE <<Head(s)>> \o DropFirstIllegal(Tail(s))

IsLegalChar(c) == c \notin IllegalChars

\* _illegal_pattern.sub('', name)
sanitize_filename(name) == SelectSeq(name, IsLegalChar)

----------------------------------------------------------------------------
(* Metadata cache, JSON flavour: audiobookz_organizer/cache.py *)

\* a dict as a function; the empty dict
EmptyDict == <<>>
\* for comparison: an assignment that keeps the value a key already has
DictSetKeepOld(d, k, v) == [x \in (DOMAIN d) \cup {k} |-> IF x \in DOMAIN d THEN d[x] ELSE v]
DictSet(d, k, v) == [x \in (DOMAIN d) \cup {k} |-> IF x = k THEN v ELSE d[x]]

\* hashlib.md5(text).hexdigest(): taken as free of collisions, so the digest
\* stands for the text it was computed from
Md5Hex(text) == <<"md5", text>>

\* for comparison: a key that keeps the case
GenerateKeyNoLower(title, author) ==
    Md5Hex(Strip(title) \o <<"|">> \o Strip(author))

\* MetadataCache._generate_key
GenerateKey(title, author) ==
    Md5Hex(Strip(Lower(title)) \o <<"|">> \o Strip(Lower(author)))

\* what MetadataCache.get returns: None or the entry
CacheMiss == [hit |-> FALSE]
CacheHit(entry) == [hit |-> TRUE, entry |-> entry]

\* MetadataCache.get
CacheLookup(data, title, author) ==
    LET key == GenerateKey(title, author)
    IN  IF key \in DOMAIN data THEN CacheHit(data[key]) ELSE CacheMiss

\* the entry MetadataCache.set builds: {**metadata, cached_at, title, author}
CacheEntry(title, author, metadata, now) ==
    [genre |-> metadata.genre, year |-> metadata.year,
     cached_at |-> now, title |-> title, author |-> author]

\* _save_json_cache: the file takes the in-memory dict, or the write fails
\* with an IOError that is swallowed
SavedFile(file, data, ioOk) == IF ioOk THEN data ELSE file

----------------------------------------------------------------------------
(* Genre inference: audiobookcleanr/metadata.py *)

\* keyword in text
Contains(text, kw) ==
    \E i \in 0..(Len(text) - Len(kw)) : SubSeq(text, i + 1, i + Len(kw)) = kw

\* genre_keywords, in the order of the dict
GenreKeywords ==
    <<
      [genre |-> <<"S","c","i","-","F","i">>,
       keywords |-> <<<<"s","c","i","e","n","c","e"," ","f","i","c","t","i","o","n">>,
                     <<"s","c","i","-","f","i">>,
                     <<"s","p","a","c","e">>,
                     <<"a","l","i","e","n">>,
                     <<"f","u","t","u","r","e">>,
                     <<"r","o","b","o","t">>,
                     <<"c","y","b","e","r","p","u","n","k">>,
                     <<"d","y","s","t","o","p","i","a","n">>>>],
      [genre |-> <<"F","a","n","t","a","s","y">>,
       keywords |-> <<<<"f","a","n","t","a","s","y">>,
                     <<"m","a","g","i","c">>,
                     <<"w","i","z","a","r","d">>,
                     <<"d","r","a","g","o","n">>,
                     <<"s","w","o","r","d">>,
                     <<"m","e","d","i","e","v","a","l">>,
                     <<"q","u","e","s","t">>,
                     <<"e","p","i","c">>>>],
      [genre |-> <<"M","y","s","t","e","r","y">>,
       keywords |-> <<<<"m","y","s","t","e","r","y">>,
                     <<"d","e","t","e","c","t","i","v","e">>,
                     <<"m","u","r","d","e","r">>,
                     <<"c","r","i","m","e">>,
                     <<"i","n","v","e","s","t","i","g","a","t","i","o","n">>,
                     <<"t","h","r","i","l","l","e","r">>,
                     <<"s","u","s","p","e","n","s","e">>>>],
      [genre |-> <<"R","o","m","a","n","c","e">>,
       keywords |-> <<<<"r","o","m","a","n","c","e">>,
                     <<"l","o","v","e">>,
                     <<"r","e","l","a","t","i","o","n","s","h","i","p">>,
                     <<"h","e","a","r","t">>,
                     <<"p","a","s","s","i","o","n">>,
                     <<"d","a","t","i","n","g">>>>],
      [genre |-> <<"H","o","r","r","o","r">>,
       keywords |-> <<<<"h","o","r","r","o","r">>,
                     <<"z","o","m","b","i","e">>,
                     <<"v","a","m","p","i","r","e">>,
                     <<"g","h","o","s","t">>,
                     <<"s","u","p","e","r","n","a","t","u","r","a","l">>,
                     <<"s","c","a","r","y">>,
                     <<"t","e","r","r","o","r">>>>],
      [genre |-> <<"B","i","o","g","r","a","p","h","y">>,
       keywords |-> <<<<"b","i","o","g","r","a","p","h","y">>,
                     <<"m","e","m","o","i","r">>,
                     <<"l","i","f","e"," ","s","t","o","r","y">>,
                     <<"a","u","t","o","b","i","o","g","r","a","p","h","y">>,
                     <<"r","e","a","l"," ","l","i","f","e">>>>],
      [genre |-> <<"H","i","s","t","o","r","y">>,
       keywords |-> <<<<"h","i","s","t","o","r","y">>,
                     <<"h","i","s","t","o","r","i","c","a","l">>,
                     <<"w","a","r">>,
                     <<"a","n","c","i","e","n","t">>,
                     <<"c","e","n","t","u","r","y">>,
                     <<"e","m","p","i","r","e">>>>],
      [genre |-> <<"B","u","s","i","n","e","s","s">>,
       keywords |-> <<<<"b","u","s","i","n","e","s","s">>,
                     <<"e","n","t","r","e","p","r","e","n","e","u","r">>,
                     <<"m","o","n","e","y">>,
                     <<"f","i","n","a","n","c","e">>,
                     <<"l","e","a","d","e","r","s","h","i","p">>,
                     <<"m","a","r","k","e","t","i","n","g">>>>],
      [genre |-> <<"S","e","l","f","-","H","e","l","p">>,
       keywords |-> <<<<"s","e","l","f","-","h","e","l","p">>,
                     <<"m","o","t","i","v","a","t","i","o","n">>,
                     <<"s","u","c","c","e","s","s">>,
                     <<"i","m","p","r","o","v","e","m","e","n","t">>,
                     <<"g","u","i","d","e">>,
                     <<"h","o","w"," ","t","o">>>>],
      [genre |-> <<"Y","o","u","n","g"," ","A","d","u","l","t">>,
       keywords |-> <<<<"y","o","u","n","g"," ","a","d","u","l","t">>,
                     <<"y","a">>,
                     <<"t","e","e","n">>,
                     <<"t","e","e","n","a","g","e","r">>,
                     <<"h","i","g","h"," ","s","c","h","o","o","l">>,
                     <<"c","o","m","i","n","g"," ","o","f"," ","a","g","e">>>>],
      [genre |-> <<"L","i","t","e","r","a","r","y"," ","F","i","c","t","i","o","n">>,
       keywords |-> <<<<"l","i","t","e","r","a","r","y">>,
                     <<"f","i","c","t","i","o","n">>,
                     <<"n","o","v","e","l">>,
                     <<"s","t","o","r","y">>,
                     <<"c","o","n","t","e","m","p","o","r","a","r","y">>>>],
      [genre |-> <<"N","o","n","-","F","i","c","t","i","o","n">>,
       keywords |-> <<<<"n","o","n","-","f","i","c","t","i","o","n">>,
                     <<"f","a","c","t","s">>,
                     <<"t","r","u","e">>,
                     <<"r","e","a","l">>,
                     <<"r","e","s","e","a","r","c","h">>,
                     <<"s","t","u","d","y">>>>]
    >>

GenreScore(text, i) ==
    Cardinality({j \in 1..Len(GenreKeywords[i].keywords) :
                    Contains(text, GenreKeywords[i].keywords[j])})

\* for comparison: the last of the best in dict order
InferGenreLastBest(title, author, description) ==
    LET text == Lower(title \o <<" ">> \o author \o <<" ">> \o description)
        scored == {i \in 1..Len(GenreKeywords) : GenreScore(text, i) > 0}
        best == {i \in scored : \A j \in scored : GenreScore(text, j) <= GenreScore(text, i)}
    IN  IF scored = {} THEN UnknownGenre ELSE GenreKeywords[SetMax(best)].genre

\* infer_genre_from_text: max() over the genres with a score, the first of
\* the best in dict order
infer_genre_from_text(title, author, description) ==
    LET text == Lower(title \o <<" ">> \o author \o <<" ">> \o description)
        scored == {i \in 1..Len(GenreKeywords) : GenreScore(text, i) > 0}
        best == {i \in scored : \A j \in scored : GenreScore(text, j) <= GenreScore(text, i)}
    IN  IF scored = {} THEN UnknownGenre ELSE GenreKeywords[SetMin(best)].genre

----------------------------------------------------------------------------
(* Embedded-tag extraction: audiobookcleanr/metadata.py *)

Mp3 == <<".","m","p","3">>
M4a == <<".","m","4","a">>
M4b == <<".","m","4","b">>
Flac == <<".","f","l","a","c">>
SUPPORTED_EXTENSIONS == {Mp3, M4a, M4b, Flac}

\* A file is [ext, opens, tags]. opens is what mutagen.File gives for it:
\* "audio" (an object that is true), "falsy" (None or an object that is
\* false) or "error" (MutagenError). tags holds the fields read and
\* written; an absent tag and an empty one are both <<>>.
NoTags ==
    [title |-> <<>>, artist |-> <<>>, album |-> <<>>, albumartist |-> <<>>,
     genre |-> <<>>, date |-> <<>>]

NoMetadata == [found |-> FALSE]

FileAuthor(file) ==
    IF file.tags.artist # <<>> THEN file.tags.artist ELSE file.tags.albumartist

\* the files of the loop of extract_metadata_from_folder that return
YieldsMetadata(file) ==
    /\ Lower(file.ext) \in SUPPORTED_EXTENSIONS
    /\ file.opens = "audio"
    /\ FileAuthor(file) # <<>>
    /\ file.tags.album # <<>>

\* extract_metadata_from_folder on a folder that holds files only: the
\* first file with an author and an album decides; genre and year are set
\* when present after trimming
extract_metadata_from_folder(files) ==
    LET good == {i \in 1..Len(files) : YieldsMetadata(files[i])}
    IN  IF good = {} THEN NoMetadata
        ELSE LET file == files[SetMin(good)]
                 date == Strip(file.tags.date)
             IN  [found |-> TRUE,
                  author |-> Strip(FileAuthor(file)),
                  title |-> Strip(file.tags.album),
                  genre |-> Strip(file.tags.genre),
                  year |-> SubSeq(date, 1, IF Len(date) < 4 THEN Len(date) ELSE 4)]

\* Audiobook(...) built from the metadata dict with its defaults
AudiobookFromMetadata(metadata) ==
    [found |-> TRUE,
     author |-> metadata.author,
     title |-> metadata.title,
     genre |-> IF metadata.genre = <<>> THEN UnknownGenre ELSE metadata.genre,
     year |-> IF metadata.year = <<>> THEN UnknownYear ELSE metadata.year]

\* for comparison: the folder name first, the tags second
ResolveNameFirst(name, files) ==
    LET parsed == parse_folder(name)
        metadata == extract_metadata_from_folder(files)
    IN  IF parsed.found THEN parsed
        ELSE IF metadata.found THEN AudiobookFromMetadata(metadata)
        ELSE NoAudiobook

\* lines 131-144 of _process_folder: tags first, the folder name second
ResolveAudiobook(name, files) ==
    LET metadata == extract_metadata_from_folder(files)
    IN  IF metadata.found THEN AudiobookFromMetadata(metadata)
        ELSE parse_folder(name)

----------------------------------------------------------------------------
(* External fetcher: audiobookz_organizer/fetcher.py *)

\* What requests.get gives: "exception" (RequestException), or a response
\* with a status and a body. A body is "invalid" (json() raises) or the
\* fields the code reads: totalItems, whether items holds an item, and the
\* first item's volumeInfo (hasInfo: present and not empty).
Date2001 == <<"2","0","0","1","-","0","1","-","0","1">>
Responses ==
    { [kind |-> "exception"],
      [kind |-> "response", status |-> 500, body |-> "invalid"],
      [kind |-> "response", status |-> 200, body |-> "invalid"],
      [kind |-> "response", status |-> 200, body |-> "json", totalItems |-> 0,
       hasItem |-> FALSE, hasInfo |-> FALSE, hasCategories |-> FALSE,
       categories |-> <<>>, hasDate |-> FALSE, publishedDate |-> <<>>],
      [kind |-> "response", status |-> 200, body |-> "json", totalItems |-> 1,
       hasItem |-> FALSE, hasInfo |-> FALSE, hasCategories |-> FALSE,
       categories |-> <<>>, hasDate |-> FALSE, publishedDate |-> <<>>],
      [kind |-> "response", status |-> 200, body |-> "json", totalItems |-> 1,
       hasItem |-> TRUE, hasInfo |-> FALSE, hasCategories |-> FALSE,
       categories |-> <<>>, hasDate |-> FALSE, publishedDate |-> <<>>],
      [kind |-> "response", status |-> 200, body |-> "json", totalItems |-> 1,
       hasItem |-> TRUE, hasInfo |-> TRUE, hasCategories |-> TRUE,
       categories |-> <<Fiction>>, hasDate |-> TRUE, publishedDate |-> Date2001],
      [kind |-> "response", status |-> 200, body |-> "json", totalItems |-> 1,
       hasItem |-> TRUE, hasInfo |-> TRUE, hasCategories |-> FALSE,
       categories |-> <<>>, hasDate |-> TRUE, publishedDate |-> Date2001],
      [kind |-> "response", status |-> 200, body |-> "json", totalItems |-> 1,
       hasItem |-> TRUE, hasInfo |-> TRUE, hasCategories |-> TRUE,
       categories |-> <<>>, hasDate |-> FALSE, publishedDate |-> <<>>] }

\* published_date.split("-")[0]
BeforeFirstHyphen(s) == SubSeq(s, 1, RunLen(s, 1, {"-"}))

NoDetails == [kind |-> "none"]
Details(genre, year) == [kind |-> "details", genre |-> genre, year |-> year]
\* an exception that fetch_book_details does not catch
FetchRaises == [kind |-> "raises"]

\* for comparison: the body is read whatever the status
ParseResponseAnyStatus(r) ==
    IF r.kind = "exception" THEN NoDetails
    ELSE IF r.body = "invalid" THEN FetchRaises
    ELSE IF r.status # 200 THEN NoDetails
    ELSE IF r.totalItems = 0 THEN NoDetails
    ELSE IF ~r.hasItem THEN NoDetails
    ELSE IF ~r.hasInfo THEN NoDetails
    ELSE LET categories == IF r.hasCategories THEN r.categories ELSE <<UnknownGenre>>
             published == IF r.hasDate THEN r.publishedDate ELSE UnknownYear
         IN  IF categories = <<>> THEN FetchRaises
             ELSE Details(categories[1], BeforeFirstHyphen(published))

\* lines 59-85 of fetch_book_details, from the call of requests.get on
ParseResponse(r) ==
    IF r.kind = "exception" THEN NoDetails
    ELSE IF r.status # 200 THEN NoDetails
    ELSE IF r.body = "invalid" THEN FetchRaises
    ELSE IF r.totalItems = 0 THEN NoDetails
    ELSE IF ~r.hasItem THEN NoDetails
    ELSE IF ~r.hasInfo THEN NoDetails
    ELSE LET categories == IF r.hasCategories THEN r.categories ELSE <<UnknownGenre>>
             published == IF r.hasDate THEN r.publishedDate ELSE UnknownYear
         IN  IF categories = <<>> THEN FetchRaises
             ELSE Details(categories[1], BeforeFirstHyphen(published))

\* for comparison: a hit that answers with the defaults
DefaultDetails(entry) == Details(UnknownGenre, UnknownYear)

\* the dict returned on a cache hit
DetailsOfEntry(entry) == Details(entry.genre, entry.year)

\* lines 149-153 of _process_folder
Enriched(book, details) ==
    IF details.kind = "details"
    THEN [book EXCEPT !.genre = details.genre, !.year = details.year]
    ELSE book

\* for comparison: the inferred genre is taken whatever the genre was
AlwaysInferGenre(book) ==
    LET inferred == infer_genre_from_text(book.title, book.author, <<>>)
    IN  IF inferred # UnknownGenre THEN [book EXCEPT !.genre = inferred] ELSE book

\* lines 159-162 of _process_folder
WithInferredGenre(book) ==
    IF book.genre = UnknownGenre
    THEN LET inferred == infer_genre_from_text(book.title, book.author, <<>>)
         IN  IF inferred # UnknownGenre THEN [book EXCEPT !.genre = inferred] ELSE book
    ELSE book

----------------------------------------------------------------------------
(* Tag writer: audiobookcleanr/tagger.py *)

Unknown == <<"U","n","k","n","o","w","n">>

\* one entry of tag_mappings is staged
Staged(current, value) ==
    /\ value # <<>>
    /\ value # Unknown
    /\ (current = <<>> \/ current # value)

\* the tags after _update_mp3_tags / _update_mp4_tags / _update_flac_tags
\* have applied what is staged
TagsFor(tags, book) ==
    [title |-> IF Staged(tags.title, book.title) THEN book.title ELSE tags.title,
     artist |-> IF Staged(tags.artist, book.author) THEN book.author ELSE tags.artist,
     album |-> IF Staged(tags.album, book.title) THEN book.title ELSE tags.album,
     albumartist |-> IF Staged(tags.albumartist, book.author) THEN book.author
                     ELSE tags.albumartist,
     genre |-> IF Staged(tags.genre, book.genre) THEN book.genre ELSE tags.genre,
     date |-> IF Staged(tags.date, book.year) THEN book.year ELSE tags.date]

\* _update_file_tags returns True
FileNeedsUpdate(file, book) ==
    /\ file.opens = "audio"
    /\ Lower(file.ext) \in SUPPORTED_EXTENSIONS
    /\ TagsFor(file.tags, book) # file.tags

\* for comparison: a writer that saves whatever dry_run says
UpdateFileAlways(file, book, dry_run) ==
    IF FileNeedsUpdate(file, book)
    THEN [file EXCEPT !.tags = TagsFor(file.tags, book)]
    ELSE file

\* the file after _update_file_tags: saved with the new tags unless dry_run
UpdateFile(file, book, dry_run) ==
    IF FileNeedsUpdate(file, book) /\ ~dry_run
    THEN [file EXCEPT !.tags = TagsFor(file.tags, book)]
    ELSE file

\* update_tags over the supported files of the folder
UpdateTags(files, book, dry_run) ==
    [i \in 1..Len(files) |->
        IF Lower(files[i].ext) \in SUPPORTED_EXTENSIONS
        THEN UpdateFile(files[i], book, dry_run) ELSE files[i]]

\* stats["files_updated"]
FilesUpdated(files, book) ==
    Cardinality({i \in 1..Len(files) : FileNeedsUpdate(files[i], book)})

----------------------------------------------------------------------------
(* Target path: audiobookcleanr/models.py *)

\* the spelling of the field names a structure list is checked with
FieldName(field) ==
    CASE field = "author" -> <<"a","u","t","h","o","r">>
      [] field = "title" -> <<"t","i","t","l","e">>
      [] field = "genre" -> <<"g","e","n","r","e">>
      [] field = "year" -> <<"y","e","a","r">>
      [] field = "narrator" -> <<"n","a","r","r","a","t","o","r">>
      [] field = "series_name" -> <<"s","e","r","i","e","s","_","n","a","m","e">>
      [] field = "source_path" -> <<"s","o","u","r","c","e","_","p","a","t","h">>
      [] field = "is_multipart" -> <<"i","s","_","m","u","l","t","i","p","a","r","t">>

IsLetter(c) == \E i \in 1..26 : UpperLetters[i] = c \/ LowerLetters[i] = c

\* str.title(): a letter that follows no letter is upper-cased, the others
\* are lower-cased
TitleCase(s) ==
    [i \in 1..Len(s) |->
        IF i = 1 \/ ~IsLetter(s[i - 1]) THEN UpperChar(s[i]) ELSE LowerChar(s[i])]

UnknownPrefix == <<"U","n","k","n","o","w","n"," ">>

\* the attributes of Audiobook that are not str: source_path is a Path and
\* is_multipart a bool, neither has a strip method
NonTextAttributes == {"source_path", "is_multipart"}
TextAttributes == {"author", "title", "genre", "year"}

\* getattr(self, field, f"Unknown {field.title()}") where the result is text
FieldValue(book, field) ==
    CASE field = "author" -> book.author
      [] field = "title" -> book.title
      [] field = "genre" -> book.genre
      [] field = "year" -> book.year
      [] OTHER -> UnknownPrefix \o TitleCase(FieldName(field))

\* naming_convention.format(...): a template is a sequence of literal texts
\* and placeholders
Lit(text) == [placeholder |-> FALSE, text |-> text]
Field(name) == [placeholder |-> TRUE, name |-> name]

RECURSIVE Format(_, _)
Format(template, book) ==
    IF template = <<>> THEN <<>>
    ELSE (IF Head(template).placeholder
          THEN sanitize_filename(FieldValue(book, Head(template).name))
          ELSE Head(template).text) \o Format(Tail(template), book)

\* a path component that pathlib drops when joining
IsKeptComponent(c) == c # <<>> /\ c # <<".">>

\* for comparison: a target path that leaves the structure out
TargetPathWithoutStructure(book, naming, structure) == <<Format(naming, book)>>

\* getattr(...).strip() raises AttributeError on an attribute that is not
\* text
TargetPathRaises(structure) ==
    \E i \in 1..Len(structure) : structure[i] \in NonTextAttributes

\* get_target_path when no attribute lookup raises: the components below
\* base_dir
get_target_path(book, naming, structure) ==
    LET parts == [i \in 1..Len(structure) |->
                    sanitize_filename(Strip(FieldValue(book, structure[i])))]
    IN  SelectSeq(parts \o <<Format(naming, book)>>, IsKeptComponent)

----------------------------------------------------------------------------
(* Messages of _process_folder: audiobookz_organizer/core.py *)

SkippedPrefix == <<"S","K","I","P","P","E","D",":"," ">>
NoMetadataSuffix == <<" ","(","C","o","u","l","d"," ","n","o","t"," ","d","e","t","e","r","m","i","n","e"," ","m","e","t","a","d","a","t","a",")">>
TargetExistsSuffix == <<" ","(","T","a","r","g","e","t"," ","e","x","i","s","t","s",")">>
DryRunMovePrefix == <<"D","R","Y","-","R","U","N",":"," ","W","o","u","l","d"," ","m","o","v","e"," ">>
MovedPrefix == <<"M","O","V","E","D",":"," ">>
Arrow == <<" ","-",">"," ">>
Bar == <<" ","|"," ">>
UpdatedTagsPrefix == <<"U","p","d","a","t","e","d"," ","t","a","g","s"," ","f","o","r"," ">>
DryRunTagsPrefix == <<"D","R","Y","-","R","U","N",":"," ","W","o","u","l","d"," ","u","p","d","a","t","e"," ","t","a","g","s"," ","f","o","r"," ">>
FilesSuffix == <<" ","f","i","l","e","s">>
NoTagUpdates == <<"N","o"," ","t","a","g"," ","u","p","d","a","t","e","s"," ","n","e","e","d","e","d">>
FailedToMovePrefix == <<"E","R","R","O","R",":"," ","F","a","i","l","e","d"," ","t","o"," ","m","o","v","e"," ">>
MovedWord == <<"M","O","V","E","D">>
DryRunWord == <<"D","R","Y","-","R","U","N">>

\* the input and output directories as they print
InputDirText == <<"i","n">>
OutputDirText == <<"o","u","t">>

RECURSIVE JoinPath(_, _)
JoinPath(base, components) ==
    IF components = <<>> THEN base
    ELSE JoinPath(base \o <<"/">> \o Head(components), Tail(components))

Digits == <<"0","1","2","3","4","5","6","7","8","9">>
RECURSIVE NumberText(_)
NumberText(n) ==
    IF n < 10 THEN <<Digits[n + 1]>>
    ELSE NumberText(n \div 10) \o <<Digits[(n % 10) + 1]>>

\* tag_msg, lines 168-173
TagMessage(n, commit) ==
    IF n > 0
    THEN (IF commit THEN UpdatedTagsPrefix ELSE DryRunTagsPrefix)
             \o NumberText(n) \o FilesSuffix
    ELSE NoTagUpdates

WithTagMessage(text, write_tags, n, commit) ==
    IF write_tags THEN text \o Bar \o TagMessage(n, commit) ELSE text

\* What a folder's task ends with: what _process_folder returns (kind
\* "message"), the AudioBookProcessError it raises (kind "process_error")
\* or any other exception that leaves it (kind "exception"). outcome names
\* the branch taken.
NoResult == [kind |-> "none", outcome |-> "none", text |-> <<>>]
SkippedNoMetadata(name) ==
    [kind |-> "message", outcome |-> "skipped_no_metadata",
     text |-> SkippedPrefix \o name \o NoMetadataSuffix]
SkippedTargetExists(name) ==
    [kind |-> "message", outcome |-> "skipped_target_exists",
     text |-> SkippedPrefix \o name \o TargetExistsSuffix]
WouldMove(name, path, write_tags, n) ==
    [kind |-> "message", outcome |-> "would_move",
     text |-> WithTagMessage(
                 DryRunMovePrefix \o JoinPath(InputDirText, <<name>>) \o Arrow
                     \o JoinPath(OutputDirText, path),
                 write_tags, n, FALSE)]
Moved(name, path, write_tags, n) ==
    [kind |-> "message", outcome |-> "moved",
     text |-> WithTagMessage(
                 MovedPrefix \o JoinPath(InputDirText, <<name>>) \o Arrow
                     \o JoinPath(OutputDirText, path),
                 write_tags, n, TRUE)]
\* str(e) of the OSError
OSErrorText == <<"O","S","E","r","r","o","r">>
FailedToMove(name) ==
    [kind |-> "process_error", outcome |-> "error",
     text |-> FailedToMovePrefix \o JoinPath(InputDirText, <<name>>)
                 \o <<":", " ">> \o OSErrorText]
OtherException ==
    [kind |-> "exception", outcome |-> "error", text |-> <<>>]

\* "MOVED" in message or "DRY-RUN" in message
CountsAsProcessed(text) == Contains(text, MovedWord) \/ Contains(text, DryRunWord)

----------------------------------------------------------------------------
(* Each specification below exercises one part and leaves the others in    *)
(* these states.                                                           *)

ParserIdle ==
    /\ parseName = <<>>
    /\ parseResult = NoAudiobook
    /\ parseDone = FALSE

SanIdle ==
    /\ sanInput = <<>>
    /\ sanOnce = <<>>
    /\ sanTwice = <<>>
    /\ sanStep = 0

CacheIdle ==
    /\ cacheData = EmptyDict
    /\ cacheFile = EmptyDict
    /\ cacheClock = 0
    /\ cacheLast = [op |-> "none"]
    /\ cacheOps = 0
    /\ cacheSets = <<>>

OrchIdle ==
    /\ cfg = [commit |-> FALSE, fetch_metadata |-> FALSE, use_cache |-> TRUE,
              write_tags |-> FALSE]
    /\ run = {}
    /\ inputDir = {}
    /\ srcFiles = <<>>
    /\ outParents = {}
    /\ outBooks = <<>>
    /\ outBooks0 = <<>>
    /\ pc = <<>>
    /\ audiobook = <<>>
    /\ loaded = <<>>
    /\ updated = <<>>
    /\ target = <<>>
    /\ existed = <<>>
    /\ failedAt = <<>>
    /\ result = <<>>
    /\ mainState = "idle"
    /\ collected = {}
    /\ printed = {}
    /\ processed_count = 0
    /\ summary = <<>>

FetchIdle ==
    /\ fetchBook = NoAudiobook
    /\ fetchUseCache = FALSE
    /\ fetchFile0 = EmptyDict
    /\ fetchPc = "idle"
    /\ fetchConsulted = FALSE
    /\ fetchLoaded = EmptyDict
    /\ fetchRequests = 0
    /\ fetchResponse = [kind |-> "none"]
    /\ fetchReturn = [kind |-> "none"]
    /\ fetchAfter = NoAudiobook
    /\ fetchInferred = NoAudiobook

PathIdle == pathCall = [pc |-> "idle"]

CliIdle == cliRun = [pc |-> "idle"]

InferIdle == inferCall = [pc |-> "idle"]

ScanIdle == scanCall = [pc |-> "idle"]

TagIdle == tagCall = [pc |-> "idle"]

ExtraIdle == FetchIdle /\ PathIdle /\ CliIdle /\ InferIdle /\ ScanIdle /\ TagIdle

----------------------------------------------------------------------------
(* The parser applied to a folder name *)

ParseAlphabet == {" ", "-", "a", "n"}

\* names of the test suite and names with capitals, a hyphenated author and
\* a line break
ParseSamples ==
    { <<"S","t","e","p","h","e","n"," ","K","i","n","g"," ","-"," ","T","h","e"," ","S","t","a","n","d">>,
      <<"T","h","e"," ","S","t","a","n","d"," ","-"," ","S","t","e","p","h","e","n"," ","K","i","n","g">>,
      <<"J","u","s","t","A","T","i","t","l","e">>,
      <<"J","e","a","n","-","L","u","c"," ","-"," ","A","n"," ","O","d","e">>,
      <<"a","\n","n"," ","-"," ","n">>,
      <<"n"," ","-"," ","A","n"," ","n">>,
      <<"n"," ","-"," ","T","h","e"," ","n">> }

ParseInputs == Str(ParseAlphabet, MaxNameLen) \cup ParseSamples

ParserInit ==
    /\ parseName \in ParseInputs
    /\ parseResult = NoAudiobook
    /\ parseDone = FALSE

\* parse_folder(path) on a path whose leaf name is parseName
ParseFolder ==
    /\ ~parseDone
    /\ parseResult' = parse_folder(parseName)
    /\ parseDone' = TRUE
    /\ UNCHANGED <<parseName, sanVars, cacheVars, orchVars, extraVars>>

InitParser == ParserInit /\ SanIdle /\ CacheIdle /\ OrchIdle /\ ExtraIdle

SpecParser == InitParser /\ [][ParseFolder]_vars

----------------------------------------------------------------------------
(* The sanitizer applied once and twice *)

SanAlphabet == IllegalChars \cup {"a", " "}

SanInit ==
    /\ sanInput \in Str(SanAlphabet, MaxSanLen)
    /\ sanOnce = <<>>
    /\ sanTwice = <<>>
    /\ sanStep = 0

SanitizeOnce ==
    /\ sanStep = 0
    /\ sanOnce' = sanitize_filename(sanInput)
    /\ sanStep' = 1
    /\ UNCHANGED <<sanInput, sanTwice, parserVars, cacheVars, orchVars, extraVars>>

SanitizeTwice ==
    /\ sanStep = 1
    /\ sanTwice' = sanitize_filename(sanOnce)
    /\ sanStep' = 2
    /\ UNCHANGED <<sanInput, sanOnce, parserVars, cacheVars, orchVars, extraVars>>

SanNext == SanitizeOnce \/ SanitizeTwice

InitSanitize == SanInit /\ ParserIdle /\ CacheIdle /\ OrchIdle /\ ExtraIdle

SpecSanitize == InitSanitize /\ [][SanNext]_vars

----------------------------------------------------------------------------
(* One cache object used through its interface *)

\* titles and authors that differ in case and padding only, and ones that
\* hold the separator of the key; fetch_book_details hands the cache no
\* empty title or author
CacheFields == { <<"a">>, <<" ", "A">>, <<"a", "|">>, <<"|", "a">> }

CacheMetadata ==
    { [genre |-> Fiction, year |-> Year2001],
      [genre |-> UnknownGenre, year |-> UnknownYear] }

\* MetadataCache(cache_dir, "json") on a directory without a cache file
CacheInit == CacheIdle

\* cache.set(title, author, metadata)
CacheSet(title, author, metadata, ioOk) ==
    /\ cacheOps < MaxCacheOps
    /\ cacheData' = DictSet(cacheData, GenerateKey(title, author),
                            CacheEntry(title, author, metadata, cacheClock))
    /\ cacheFile' = SavedFile(cacheFile, cacheData', ioOk)
    /\ cacheClock' = cacheClock + 1
    /\ cacheLast' = [op |-> "set", title |-> title, author |-> author,
                     metadata |-> metadata]
    /\ cacheOps' = cacheOps + 1
    /\ cacheSets' = Append(cacheSets, [title |-> title, author |-> author,
                                       metadata |-> metadata, at |-> cacheClock])
    /\ UNCHANGED <<parserVars, sanVars, orchVars, extraVars>>

\* cache.get(title, author)
CacheGet(title, author) ==
    /\ cacheOps < MaxCacheOps
    /\ cacheLast' = [op |-> "get", title |-> title, author |-> author,
                     result |-> CacheLookup(cacheData, title, author)]
    /\ cacheOps' = cacheOps + 1
    /\ UNCHANGED <<cacheData, cacheFile, cacheClock, cacheSets, parserVars, sanVars, orchVars, extraVars>>

\* cache.clear()
CacheClear(ioOk) ==
    /\ cacheOps < MaxCacheOps
    /\ cacheData' = EmptyDict
    /\ cacheFile' = SavedFile(cacheFile, EmptyDict, ioOk)
    /\ cacheLast' = [op |-> "clear"]
    /\ cacheOps' = cacheOps + 1
    /\ cacheSets' = <<>>
    /\ UNCHANGED <<cacheClock, parserVars, sanVars, orchVars, extraVars>>

\* cache.size()
CacheSize ==
    /\ cacheOps < MaxCacheOps
    /\ cacheLast' = [op |-> "size", result |-> Cardinality(DOMAIN cacheData)]
    /\ cacheOps' = cacheOps + 1
    /\ UNCHANGED <<cacheData, cacheFile, cacheClock, cacheSets, parserVars, sanVars, orchVars, extraVars>>

CacheNext ==
    \/ \E t \in CacheFields, a \in CacheFields, m \in CacheMetadata, ioOk \in BOOLEAN :
          CacheSet(t, a, m, ioOk)
    \/ \E t \in CacheFields, a \in CacheFields : CacheGet(t, a)
    \/ \E ioOk \in BOOLEAN : CacheClear(ioOk)
    \/ CacheSize

InitCache == CacheInit /\ ParserIdle /\ SanIdle /\ OrchIdle /\ ExtraIdle

SpecCache == InitCache /\ [][CacheNext]_vars

----------------------------------------------------------------------------
(* organize_audiobooks: the worker pool and the collecting main thread     *)
(* (audiobookz_organizer/core.py)                                          *)

\* naming "{author} - {title}" and structure ["author"], as the test suite
\* calls organize_audiobooks
Naming == <<Field("author"), Lit(<<" ", "-", " ">>), Field("title")>>
Structure == <<"author">>

Txt == <<".","t","x","t">>

\* The source folders a run can find in the input directory: two names that
\* resolve to the same book (one of them holding a note), a name that the
\* parser rejects, and a folder whose name parses and whose audio file has
\* the tags of another book.
Catalog ==
    << [name |-> <<"K"," ","-"," ","T","h","e"," ","S">>, files |-> <<>>],
       [name |-> <<"T","h","e"," ","S"," ","-"," ","K">>,
        files |-> << [ext |-> Txt, opens |-> "error", tags |-> NoTags] >>],
       [name |-> MovedWord, files |-> <<>>],
       [name |-> <<"A"," ","-"," ","B">>,
        files |-> << [ext |-> Mp3, opens |-> "audio",
                      tags |-> [NoTags EXCEPT !.artist = <<"W">>, !.album = <<"M">>]] >>] >>

\* the flags of a run; use_cache matters only when fetch_metadata is set
Configs ==
    {c \in [commit : BOOLEAN, fetch_metadata : BOOLEAN, use_cache : BOOLEAN,
            write_tags : BOOLEAN] : c.fetch_metadata \/ c.use_cache}

\* the target of a source folder as it is when the run starts (naming and
\* structure use author and title only)
PlannedTarget(f) ==
    get_target_path(ResolveAudiobook(Catalog[f].name, Catalog[f].files),
                    Naming, Structure)
Resolvable(f) == ResolveAudiobook(Catalog[f].name, Catalog[f].files).found

\* An entry of the output directory is a path below it (a sequence of
\* components). outBooks maps the path of a book folder to its occupant:
\* 0 for a folder that was there before the run, else the source folder
\* that was renamed to it. outParents holds the other directories.
Preexisting == [who |-> 0]
MovedFolder(f) == [who |-> f]

Ancestors(path) == {SubSeq(path, 1, k) : k \in 1..(Len(path) - 1)}
AllAncestors(paths) == UNION {Ancestors(p) : p \in paths}

\* Path.exists()
Exists(path, books, parents) ==
    path = <<>> \/ path \in DOMAIN books \/ path \in parents

OrchInit ==
    /\ cfg \in Configs
    /\ run \in {r \in SUBSET (1..Len(Catalog)) : Cardinality(r) \in 1..NumFolders}
    /\ inputDir = run
    /\ srcFiles = [f \in run |-> Catalog[f].files]
    /\ \E pre \in SUBSET {PlannedTarget(f) : f \in {g \in run : Resolvable(g)}} :
          outBooks0 = [p \in pre |-> Preexisting]
    /\ outBooks = outBooks0
    /\ outParents = AllAncestors(DOMAIN outBooks0)
    /\ pc = [f \in run |-> "pending"]
    /\ audiobook = [f \in run |-> NoAudiobook]
    /\ loaded = [f \in run |-> EmptyDict]
    /\ updated = [f \in run |-> 0]
    /\ target = [f \in run |-> <<>>]
    /\ existed = [f \in run |-> FALSE]
    /\ failedAt = [f \in run |-> "none"]
    /\ result = [f \in run |-> NoResult]
    /\ mainState = "collecting"
    /\ collected = {}
    /\ printed = {}
    /\ processed_count = 0
    /\ summary = <<>>

\* the task of folder f ends with r
Ends(f, r) ==
    /\ result' = [result EXCEPT ![f] = r]
    /\ pc' = [pc EXCEPT ![f] = "done"]

\* the stage after enrichment and genre inference
AfterGenre == IF cfg.write_tags THEN "tags" ELSE "target"

\* lines 130-147: extract_metadata_from_folder, else parse_folder; without
\* fetch_metadata the genre inference of lines 159-163 follows at once
Resolve(f) ==
    /\ pc[f] = "pending"
    /\ LET b == ResolveAudiobook(Catalog[f].name, srcFiles[f])
       IN  IF ~b.found
           THEN Ends(f, SkippedNoMetadata(Catalog[f].name)) /\ UNCHANGED audiobook
           ELSE /\ audiobook' = [audiobook EXCEPT ![f] =
                               IF cfg.fetch_metadata THEN b ELSE WithInferredGenre(b)]
                /\ pc' = [pc EXCEPT ![f] =
                               IF cfg.fetch_metadata THEN "fetch" ELSE AfterGenre]
                /\ UNCHANGED result
    /\ UNCHANGED <<cfg, run, inputDir, srcFiles, outParents, outBooks, outBooks0,
                   loaded, updated, target, existed, failedAt, mainView,
                   parserVars, sanVars, extraVars, cacheVars>>

\* fetch_book_details up to the request: the empty check, and with
\* use_cache a new MetadataCache that loads the file, and its get
FetchBegin(f) ==
    /\ pc[f] = "fetch"
    /\ IF audiobook[f].title = <<>> \/ audiobook[f].author = <<>>
       THEN /\ audiobook' = [audiobook EXCEPT ![f] = WithInferredGenre(audiobook[f])]
            /\ pc' = [pc EXCEPT ![f] = AfterGenre]
            /\ UNCHANGED loaded
       ELSE IF cfg.use_cache
       THEN LET hit == CacheLookup(cacheFile, audiobook[f].title, audiobook[f].author)
            IN  /\ loaded' = [loaded EXCEPT ![f] = cacheFile]
                /\ IF hit.hit
                   THEN /\ audiobook' = [audiobook EXCEPT ![f] = WithInferredGenre(
                                       Enriched(audiobook[f], DetailsOfEntry(hit.entry)))]
                        /\ pc' = [pc EXCEPT ![f] = AfterGenre]
                   ELSE /\ pc' = [pc EXCEPT ![f] = "request"]
                        /\ UNCHANGED audiobook
       ELSE /\ pc' = [pc EXCEPT ![f] = "request"]
            /\ UNCHANGED <<audiobook, loaded>>
    /\ UNCHANGED <<cfg, run, inputDir, srcFiles, outParents, outBooks, outBooks0,
                   updated, target, existed, failedAt, result, mainView,
                   parserVars, sanVars, extraVars, cacheVars>>

\* fetch_book_details from requests.get on, then lines 151-163 of
\* _process_folder; r is what the service answers and ioOk whether the
\* cache file can be written
FetchEnd(f, r, ioOk) ==
    /\ pc[f] = "request"
    /\ LET details == ParseResponse(r)
       IN  IF details.kind = "raises"
           THEN /\ Ends(f, OtherException)
                /\ UNCHANGED <<audiobook, loaded, cacheFile, cacheClock>>
           ELSE /\ audiobook' = [audiobook EXCEPT ![f] = WithInferredGenre(Enriched(audiobook[f], details))]
                /\ pc' = [pc EXCEPT ![f] = AfterGenre]
                /\ UNCHANGED result
                /\ IF details.kind = "details" /\ cfg.use_cache
                   THEN /\ loaded' = [loaded EXCEPT ![f] =
                               DictSet(loaded[f], GenerateKey(audiobook[f].title, audiobook[f].author),
                                       CacheEntry(audiobook[f].title, audiobook[f].author,
                                                  details, cacheClock))]
                        /\ cacheFile' = SavedFile(cacheFile, loaded'[f], ioOk)
                        /\ cacheClock' = cacheClock + 1
                   ELSE UNCHANGED <<loaded, cacheFile, cacheClock>>
    /\ UNCHANGED <<cfg, run, inputDir, srcFiles, outParents, outBooks, outBooks0,
                   updated, target, existed, failedAt, mainView,
                   parserVars, sanVars, extraVars, cacheData, cacheLast, cacheOps, cacheSets>>

\* lines 166-173: update_audiobook_tags(audiobook, dry_run=not commit)
WriteTags(f) ==
    /\ pc[f] = "tags"
    /\ srcFiles' = [srcFiles EXCEPT ![f] = UpdateTags(srcFiles[f], audiobook[f], ~cfg.commit)]
    /\ updated' = [updated EXCEPT ![f] = FilesUpdated(srcFiles[f], audiobook[f])]
    /\ pc' = [pc EXCEPT ![f] = "target"]
    /\ UNCHANGED <<cfg, run, inputDir, outParents, outBooks, outBooks0, audiobook,
                   loaded, target, existed, failedAt, result, mainView,
                   parserVars, sanVars, extraVars, cacheVars>>

\* lines 175-184: the target path, the existence check and the dry-run report
CheckTarget(f) ==
    /\ pc[f] = "target"
    /\ LET t == get_target_path(audiobook[f], Naming, Structure)
           name == Catalog[f].name
       IN  /\ target' = [target EXCEPT ![f] = t]
           /\ existed' = [existed EXCEPT ![f] = Exists(t, outBooks, outParents)]
           /\ IF Exists(t, outBooks, outParents)
              THEN Ends(f, SkippedTargetExists(name))
              ELSE IF ~cfg.commit
              THEN Ends(f, WouldMove(name, t, cfg.write_tags, updated[f]))
              ELSE pc' = [pc EXCEPT ![f] = "mkdir"] /\ UNCHANGED result
    /\ UNCHANGED <<cfg, run, inputDir, srcFiles, outParents, outBooks, outBooks0,
                   audiobook, loaded, updated, failedAt, mainView,
                   parserVars, sanVars, extraVars, cacheVars>>

\* line 187: target_path.parent.mkdir(parents=True, exist_ok=True), which
\* the system lets succeed or fail with an OSError (lines 193-194)
MakeParents(f, ok) ==
    /\ pc[f] = "mkdir"
    /\ IF ok
       THEN /\ outParents' = outParents \cup Ancestors(target[f])
            /\ pc' = [pc EXCEPT ![f] = "rename"]
            /\ UNCHANGED <<result, failedAt>>
       ELSE /\ Ends(f, FailedToMove(Catalog[f].name))
            /\ failedAt' = [failedAt EXCEPT ![f] = "mkdir"]
            /\ UNCHANGED outParents
    /\ UNCHANGED <<cfg, run, inputDir, srcFiles, outBooks, outBooks0, audiobook,
                   loaded, updated, target, existed, mainView,
                   parserVars, sanVars, extraVars, cacheVars>>

\* the directory at path holds nothing
IsEmptyFolder(path, books, files) ==
    /\ path \in DOMAIN books
    /\ books[path].who # 0
    /\ files[books[path].who] = <<>>

\* os.rename of a directory: onto a free path it moves; onto an empty
\* directory it replaces it (POSIX) or fails (Windows); onto anything else
\* it fails; and the system can fail it whatever the target (ok = FALSE)
RenameSucceeds(path, books, parents, files, ok) ==
    /\ ok
    /\ path # <<>>
    /\ path \notin parents
    /\ path \in DOMAIN books => IsEmptyFolder(path, books, files)

\* lines 188-194: folder_path.rename(target_path) and the two ways out
Rename(f, ok) ==
    /\ pc[f] = "rename"
    /\ IF RenameSucceeds(target[f], outBooks, outParents, srcFiles, ok)
       THEN /\ inputDir' = inputDir \ {f}
            /\ outBooks' = DictSet(outBooks, target[f], MovedFolder(f))
            /\ Ends(f, Moved(Catalog[f].name, target[f], cfg.write_tags, updated[f]))
            /\ UNCHANGED failedAt
       ELSE /\ Ends(f, FailedToMove(Catalog[f].name))
            /\ failedAt' = [failedAt EXCEPT ![f] = "rename"]
            /\ UNCHANGED <<inputDir, outBooks>>
    /\ UNCHANGED <<cfg, run, srcFiles, outParents, outBooks0, audiobook, loaded,
                   updated, target, existed, mainView,
                   parserVars, sanVars, extraVars, cacheVars>>

SummaryPrefix(commit) ==
    IF commit
    THEN <<"O","p","e","r","a","t","i","o","n"," ","c","o","m","p","l","e","t","e",".", " ">>
    ELSE <<"D","r","y"," ","r","u","n"," ","c","o","m","p","l","e","t","e",".", " ">>
FoldersProcessed ==
    <<" ","f","o","l","d","e","r","s"," ","p","r","o","c","e","s","s","e","d",".">>
\* line 101-102
SummaryText(commit, n) == SummaryPrefix(commit) \o NumberText(n) \o FoldersProcessed

\* the exception of a task is one that the except clause of line 97 catches
IsCaught(r) == r.kind = "process_error"

\* lines 88-99: as_completed hands over a finished task; its message or its
\* AudioBookProcessError is printed, any other exception leaves the loop
Collect(f) ==
    /\ mainState = "collecting"
    /\ pc[f] = "done"
    /\ f \notin collected
    /\ collected' = collected \cup {f}
    /\ IF result[f].kind = "message"
       THEN /\ printed' = printed \cup {f}
            /\ processed_count' = IF CountsAsProcessed(result[f].text)
                                  THEN processed_count + 1 ELSE processed_count
            /\ UNCHANGED mainState
       ELSE IF IsCaught(result[f])
       THEN /\ printed' = printed \cup {f}
            /\ UNCHANGED <<processed_count, mainState>>
       ELSE /\ mainState' = "aborting"
            /\ UNCHANGED <<printed, processed_count>>
    /\ UNCHANGED <<cfg, run, inputDir, srcFiles, outParents, outBooks, outBooks0,
                   workerVars, summary, parserVars, sanVars, extraVars, cacheVars>>

\* lines 101-103, after the last task was collected
Summarize ==
    /\ mainState = "collecting"
    /\ collected = run
    /\ summary' = SummaryText(cfg.commit, processed_count)
    /\ mainState' = "returned"
    /\ UNCHANGED <<cfg, run, inputDir, srcFiles, outParents, outBooks, outBooks0,
                   workerVars, collected, printed, processed_count,
                   parserVars, sanVars, extraVars, cacheVars>>

\* line 70: the with block left by an exception waits for the running
\* tasks (shutdown(wait=True)) and the exception leaves organize_audiobooks
Shutdown ==
    /\ mainState = "aborting"
    /\ \A f \in run : pc[f] = "done"
    /\ mainState' = "raised"
    /\ UNCHANGED <<cfg, run, inputDir, srcFiles, outParents, outBooks, outBooks0,
                   workerVars, collected, printed, processed_count, summary,
                   parserVars, sanVars, extraVars, cacheVars>>

Next ==
    \/ \E f \in run : Resolve(f)
    \/ \E f \in run : FetchBegin(f)
    \/ \E f \in run, r \in Responses, ioOk \in BOOLEAN : FetchEnd(f, r, ioOk)
    \/ \E f \in run : WriteTags(f)
    \/ \E f \in run : CheckTarget(f)
    \/ \E f \in run, ok \in BOOLEAN : MakeParents(f, ok)
    \/ \E f \in run, ok \in BOOLEAN : Rename(f, ok)
    \/ \E f \in run : Collect(f)
    \/ Summarize
    \/ Shutdown

Init == OrchInit /\ ParserIdle /\ SanIdle /\ CacheIdle /\ ExtraIdle

Spec == Init /\ [][Next]_vars

----------------------------------------------------------------------------
(* One call of fetch_book_details and the enrichment of lines 149-153 of   *)
(* _process_folder (audiobookz_organizer/fetcher.py, core.py)              *)

\* titles and authors of the call: empty, differing in case and padding only
FetchFields == { <<>>, <<"a">>, <<" ", "A">>, <<"b">>, <<"W", "a", "r">> }

Mystery == <<"M","y","s","t","e","r","y">>
Year1999 == <<"1","9","9","9">>

\* the audiobook when line 150 is reached: genre and year are the defaults
\* or what the embedded tags gave
FetchBooks ==
    { [found |-> TRUE, author |-> a, title |-> t, genre |-> g, year |-> y] :
        a \in FetchFields, t \in FetchFields,
        g \in {UnknownGenre, Mystery}, y \in {UnknownYear, Year1999} }

\* entries that earlier runs can have left in the cache file
SeedEntries ==
    { CacheEntry(<<"a">>, <<"a">>, [genre |-> Fiction, year |-> Year2001], 0),
      CacheEntry(<<"b">>, <<"a">>, [genre |-> UnknownGenre, year |-> UnknownYear], 0) }

\* the cache file that MetadataCache.set leaves for a set of entries
FileOf(entries) ==
    [k \in {GenerateKey(e.title, e.author) : e \in entries} |->
        CHOOSE e \in entries : GenerateKey(e.title, e.author) = k]

FetchInit ==
    /\ fetchBook \in FetchBooks
    /\ fetchUseCache \in BOOLEAN
    /\ cacheFile \in {FileOf(s) : s \in SUBSET SeedEntries}
    /\ fetchFile0 = cacheFile
    /\ fetchPc = "call"
    /\ fetchConsulted = FALSE
    /\ fetchLoaded = EmptyDict
    /\ fetchRequests = 0
    /\ fetchResponse = [kind |-> "none"]
    /\ fetchReturn = NoDetails
    /\ fetchAfter = NoAudiobook
    /\ fetchInferred = NoAudiobook
    /\ cacheData = EmptyDict
    /\ cacheClock = 1
    /\ cacheLast = [op |-> "none"]
    /\ cacheOps = 0
    /\ cacheSets = <<>>

\* lines 37-52 of fetch_book_details: the empty check, then with use_cache
\* the cache object (which loads the file) and its get
FetchCall ==
    /\ fetchPc = "call"
    /\ IF fetchBook.title = <<>> \/ fetchBook.author = <<>>
       THEN /\ fetchPc' = "returned"
            /\ fetchReturn' = NoDetails
            /\ UNCHANGED <<fetchConsulted, fetchLoaded>>
       ELSE IF fetchUseCache
       THEN LET hit == CacheLookup(cacheFile, fetchBook.title, fetchBook.author)
            IN  /\ fetchConsulted' = TRUE
                /\ fetchLoaded' = cacheFile
                /\ IF hit.hit
                   THEN fetchPc' = "returned" /\ fetchReturn' = DetailsOfEntry(hit.entry)
                   ELSE fetchPc' = "request" /\ UNCHANGED fetchReturn
       ELSE /\ fetchPc' = "request"
            /\ UNCHANGED <<fetchConsulted, fetchLoaded, fetchReturn>>
    /\ UNCHANGED <<fetchBook, fetchUseCache, fetchFile0, fetchRequests, fetchResponse,
                   fetchAfter, parserVars, sanVars, cacheVars, orchVars,
                   fetchInferred, pathCall, cliRun, inferCall, scanCall, tagCall>>

\* lines 54-91: requests.get answers r; the result is cached when use_cache
\* is set (ioOk: the cache file can be written) and returned
FetchRequest(r, ioOk) ==
    /\ fetchPc = "request"
    /\ fetchRequests' = fetchRequests + 1
    /\ fetchResponse' = r
    /\ LET details == ParseResponse(r)
       IN  /\ fetchReturn' = details
           /\ fetchPc' = IF details.kind = "raises" THEN "raised" ELSE "returned"
           /\ IF details.kind = "details" /\ fetchUseCache
              THEN /\ fetchLoaded' = DictSet(fetchLoaded,
                                        GenerateKey(fetchBook.title, fetchBook.author),
                                        CacheEntry(fetchBook.title, fetchBook.author,
                                                   details, cacheClock))
                   /\ cacheFile' = SavedFile(cacheFile, fetchLoaded', ioOk)
                   /\ cacheClock' = cacheClock + 1
              ELSE UNCHANGED <<fetchLoaded, cacheFile, cacheClock>>
    /\ UNCHANGED <<fetchBook, fetchUseCache, fetchFile0, fetchConsulted, fetchAfter,
                   parserVars, sanVars, cacheData, cacheLast, cacheOps, cacheSets, orchVars,
                   fetchInferred, pathCall, cliRun, inferCall, scanCall, tagCall>>

\* lines 151-153 of _process_folder on what fetch_book_details returned
FetchEnrich ==
    /\ fetchPc = "returned"
    /\ fetchAfter' = Enriched(fetchBook, fetchReturn)
    /\ fetchPc' = "enriched"
    /\ UNCHANGED <<fetchBook, fetchUseCache, fetchFile0, fetchConsulted, fetchLoaded,
                   fetchRequests, fetchResponse, fetchReturn,
                   fetchInferred, parserVars, sanVars, cacheVars, orchVars,
                   pathCall, cliRun, inferCall, scanCall, tagCall>>

\* lines 159-163 of _process_folder, which follow whatever the fetcher
\* returned
FetchInfer ==
    /\ fetchPc = "enriched"
    /\ fetchInferred' = WithInferredGenre(fetchAfter)
    /\ fetchPc' = "inferred"
    /\ UNCHANGED <<fetchBook, fetchUseCache, fetchFile0, fetchConsulted, fetchLoaded,
                   fetchRequests, fetchResponse, fetchReturn, fetchAfter,
                   parserVars, sanVars, cacheVars, orchVars,
                   pathCall, cliRun, inferCall, scanCall, tagCall>>

FetchNext ==
    \/ FetchCall
    \/ \E r \in Responses, ioOk \in BOOLEAN : FetchRequest(r, ioOk)
    \/ FetchEnrich
    \/ FetchInfer

InitFetch ==
    FetchInit /\ ParserIdle /\ SanIdle /\ OrchIdle /\ PathIdle /\ CliIdle /\ InferIdle
        /\ ScanIdle /\ TagIdle

SpecFetch == InitFetch /\ [][FetchNext]_vars

----------------------------------------------------------------------------
(* Claims about organize_audiobooks and _process_folder *)

Parents0 == AllAncestors(DOMAIN outBooks0)
InitialFiles == [f \in run |-> Catalog[f].files]
Terminated == mainState \in {"returned", "raised"}

\* C1: a folder whose target path exists when _process_folder checks it ends
\* Skipped(Target exists), and its pipeline has modified neither the source
\* folder (its place, its files, their tags) nor the destination
C1_TargetExistsTouchesNothing ==
    \A f \in run :
        (pc[f] = "done" /\ existed[f]) =>
            /\ result[f].outcome = "skipped_target_exists"
            /\ f \in inputDir
            /\ srcFiles[f] = Catalog[f].files
            /\ \A p \in DOMAIN outBooks : outBooks[p].who # f

\* the input directory, the output tree and every tag are as at the start
DryRunFrame ==
    /\ inputDir = run
    /\ outBooks = outBooks0
    /\ outParents = Parents0
    /\ srcFiles = InitialFiles

\* C2 as stated: a dry run changes nothing under the input and output
\* directories, persists no tag, and reports every resolvable folder as
\* 'Would move'
C2_DryRunAllWouldMove ==
    ~cfg.commit =>
        /\ DryRunFrame
        /\ mainState = "returned" =>
              \A f \in run : Resolvable(f) => result[f].outcome = "would_move"

\* C2, amended: a dry run changes nothing under the input and output
\* directories and persists no tag, at any point of the run; a resolvable
\* folder whose task returns is reported 'DRY-RUN: Would move' when its
\* target path is free and Skipped (Target exists) when it exists; and when
\* organize_audiobooks returns every resolvable folder has been reported
C2_DryRun ==
    ~cfg.commit =>
        /\ DryRunFrame
        /\ \A f \in run :
              (Resolvable(f) /\ pc[f] = "done" /\ result[f].kind = "message") =>
                  IF Exists(target[f], outBooks0, Parents0)
                  THEN result[f] = SkippedTargetExists(Catalog[f].name)
                  ELSE /\ result[f].outcome = "would_move"
                       /\ StartsWith(result[f].text, DryRunMovePrefix)
        /\ mainState = "returned" =>
              \A f \in run : Resolvable(f) =>
                  f \in printed /\ result[f].kind = "message"

\* a dry run with tag writing has returned; one folder with a staged tag
\* change is skipped for its existing target, another would move
C2_Witness ==
    /\ ~cfg.commit
    /\ cfg.write_tags
    /\ mainState = "returned"
    /\ \E f \in run : result[f].outcome = "skipped_target_exists" /\ updated[f] > 0
    /\ \E f \in run : result[f].outcome = "would_move"

\* base/structure.../name for naming '{author} - {title}' and structure
\* ['author'], as components below the output directory
ExpectedPath(b) ==
    << sanitize_filename(Strip(b.author)),
       sanitize_filename(b.author) \o <<" ", "-", " ">> \o sanitize_filename(b.title) >>

\* the folder is at its target path and no longer at its source path
AtTarget(f) ==
    /\ target[f] = ExpectedPath(audiobook[f])
    /\ target[f] \in DOMAIN outBooks
    /\ outBooks[target[f]] = MovedFolder(f)
    /\ f \notin inputDir

\* resolves, target free at the start, target shared with no other folder
MovableAlone(f) ==
    /\ Resolvable(f)
    /\ ~Exists(PlannedTarget(f), outBooks0, Parents0)
    /\ \A g \in run \ {f} : Resolvable(g) => PlannedTarget(g) # PlannedTarget(f)

\* C3 as stated: in commit mode a folder that resolves, whose target is free
\* and its own, and whose rename does not fail is at its target and gone
\* from its source once organize_audiobooks has returned
C3_MovedUnlessRenameFails ==
    (cfg.commit /\ mainState = "returned") =>
        \A f \in run : (MovableAlone(f) /\ failedAt[f] # "rename") => AtTarget(f)

\* C3, amended: the same for a folder for which neither the creation of the
\* parent directories nor the rename fails
C3_MovedUnlessMoveFails ==
    (cfg.commit /\ mainState = "returned") =>
        \A f \in run : (MovableAlone(f) /\ failedAt[f] = "none") => AtTarget(f)

\* a commit run of two folders has returned: one was moved to its own free
\* target, the move of the other failed
C3_Witness ==
    /\ cfg.commit
    /\ mainState = "returned"
    /\ \E f \in run : MovableAlone(f) /\ failedAt[f] = "none" /\ AtTarget(f)
    /\ \E f \in run : failedAt[f] # "none"

\* C4: in commit mode, when the rename of a folder fails with an OSError the
\* task raises AudioBookProcessError 'ERROR: Failed to move ...', every
\* other folder is processed to its outcome, and organize_audiobooks
\* returns normally
C4_RenameFailureNeverAborts ==
    (cfg.commit /\ \E f \in run : failedAt[f] = "rename") =>
        /\ \A f \in run : failedAt[f] = "rename" =>
              /\ result[f].kind = "process_error"
              /\ StartsWith(result[f].text, FailedToMovePrefix)
        /\ Terminated => \A f \in run : pc[f] = "done"
        /\ mainState \notin {"aborting", "raised"}

\* C5: no failure inside a folder's pipeline aborts the run: each is
\* reported as that folder's outcome and the summary line is always emitted
C5_NoFolderFailureAbortsRun ==
    /\ \A f \in collected : f \in printed
    /\ mainState \notin {"aborting", "raised"}
    /\ Terminated => summary = SummaryText(cfg.commit, processed_count)

\* What does hold of failed moves: a task whose mkdir or rename raised ends
\* with the AudioBookProcessError, the main thread prints it and goes on,
\* and a run in which no task raised anything else returns with its summary.
MoveFailureIsPerFolder ==
    /\ \A f \in run : failedAt[f] # "none" <=> result[f].kind = "process_error"
    /\ \A f \in collected : result[f].kind = "process_error" => f \in printed
    /\ (\A f \in run : result[f].kind # "exception") => mainState \in {"collecting", "returned"}
    /\ Terminated => \A f \in run : pc[f] = "done"
    /\ mainState = "returned" => summary = SummaryText(cfg.commit, processed_count)

MoveFailureIsPerFolder_Witness ==
    /\ mainState = "returned"
    /\ \E f \in run : failedAt[f] = "rename" /\ f \in printed
    /\ \E f \in run : result[f].outcome = "moved"

----------------------------------------------------------------------------
(* Claims about the parser *)

\* the ways of reading a name as X - Y: k is the length of X
Readings(s) == {k \in 0..(Len(s) - 3) : SubSeq(s, k + 1, k + 3) = Delim}
PartX(s, k) == SubSeq(s, 1, k)
PartY(s, k) == SubSeq(s, k + 4, Len(s))
HasChar(s, c) == \E i \in 1..Len(s) : s[i] = c

\* C6 as stated: for every reading X - Y of a name (X and Y not empty, no
\* line break in X) where trimmed Y has no leading article, parse_folder
\* returns title = X and author = Y, trimmed, whatever hyphens and further
\* delimiters X and Y contain.
C6_TitleFirstAnyXY ==
    parseDone =>
        \A k \in Readings(parseName) :
            LET X == PartX(parseName, k)
                Y == PartY(parseName, k)
            IN  (/\ X # <<>> /\ ~HasChar(X, "\n")
                 /\ Y # <<>>
                 /\ ~HasLeadingArticle(Strip(Y))) =>
                    /\ parseResult.found
                    /\ parseResult.title = Strip(X)
                    /\ parseResult.author = Strip(Y)

\* C6 amended: for every name X - Y where X is not empty and has no line
\* break, Y is not empty and holds no hyphen, and trimmed Y has no leading
\* article, parse_folder returns title = X and author = Y, both trimmed; X
\* may contain hyphens and further delimiters.
C6_TitleFirst ==
    parseDone =>
        \A k \in Readings(parseName) :
            LET X == PartX(parseName, k)
                Y == PartY(parseName, k)
            IN  (/\ X # <<>> /\ ~HasChar(X, "\n")
                 /\ Y # <<>> /\ ~HasChar(Y, "-")
                 /\ ~HasLeadingArticle(Strip(Y))) =>
                    /\ parseResult.found
                    /\ parseResult.title = Strip(X)
                    /\ parseResult.author = Strip(Y)

\* a name whose X contains a hyphen has been parsed title-first
C6_Witness ==
    /\ parseDone
    /\ \E k \in Readings(parseName) :
          /\ HasChar(PartX(parseName, k), "-")
          /\ Strip(PartX(parseName, k)) # <<>>
          /\ PartY(parseName, k) # <<>>
          /\ ~HasChar(PartY(parseName, k), "-")
          /\ Strip(PartY(parseName, k)) # <<>>
          /\ ~HasLeadingArticle(Strip(PartY(parseName, k)))
          /\ parseResult.found
          /\ parseResult.author = Strip(PartY(parseName, k))

C8_NoResultIffNoMatch ==
    parseDone =>
        (parseResult = NoAudiobook <=>
            (~MatchTitleAuthor(parseName).found /\ ~MatchAuthorTitle(parseName).found))

----------------------------------------------------------------------------
(* Claims about the sanitizer *)

LegalPositions(s) == {i \in 1..Len(s) : s[i] \notin IllegalChars}
NthLegal(s, j) ==
    CHOOSE i \in LegalPositions(s) :
        Cardinality({m \in LegalPositions(s) : m <= i}) = j

\* C9: sanitize_filename is idempotent, its result holds none of the
\* characters < > : " / \ | ? *, and the other characters of the input are
\* kept, in their order.
C9_SanitizeIdempotent ==
    /\ sanStep >= 1 =>
          /\ \A i \in 1..Len(sanOnce) : sanOnce[i] \notin IllegalChars
          /\ Len(sanOnce) = Cardinality(LegalPositions(sanInput))
          /\ \A j \in 1..Len(sanOnce) : sanOnce[j] = sanInput[NthLegal(sanInput, j)]
    /\ sanStep = 2 => sanTwice = sanOnce

\* a string with two illegal characters around a legal one has been
\* sanitized twice
C9_Witness ==
    /\ sanStep = 2
    /\ Len(sanInput) = 3
    /\ sanInput[1] \in IllegalChars
    /\ sanInput[2] \notin IllegalChars
    /\ sanInput[3] \in IllegalChars
    /\ Len(sanTwice) = 1

----------------------------------------------------------------------------
(* Claims about the cache key *)

\* the lower-cased, trimmed pair a key is meant to stand for
NormalPair(title, author) == <<Strip(Lower(title)), Strip(Lower(author))>>

\* C10: the key depends only on the lower-cased, trimmed title and author:
\* key(t, a) = key(t.strip().upper(), a.strip().lower()); a get whose pair
\* equals a stored pair up to case and surrounding whitespace returns that
\* entry, and a get for a pair that differs after normalization never
\* returns it.
C10_KeyIdentifiesNormalPair ==
    /\ \A k \in DOMAIN cacheData :
          LET e == cacheData[k]
          IN  /\ k = GenerateKey(e.title, e.author)
              /\ k = GenerateKey(Upper(Strip(e.title)), Lower(Strip(e.author)))
    /\ cacheLast.op = "get" =>
          /\ \A k \in DOMAIN cacheData :
                NormalPair(cacheData[k].title, cacheData[k].author)
                        = NormalPair(cacheLast.title, cacheLast.author)
                    => cacheLast.result = CacheHit(cacheData[k])
          /\ cacheLast.result.hit =>
                NormalPair(cacheLast.result.entry.title, cacheLast.result.entry.author)
                    = NormalPair(cacheLast.title, cacheLast.author)

\* the part of C10 the code keeps: equal keys for pairs equal up to case and
\* surrounding whitespace, and a hit for every such get
CacheKeyIgnoresCaseAndPadding ==
    /\ \A k \in DOMAIN cacheData :
          LET e == cacheData[k]
          IN  /\ k = GenerateKey(e.title, e.author)
              /\ k = GenerateKey(Upper(Strip(e.title)), Lower(Strip(e.author)))
    /\ cacheLast.op = "get" =>
          \A k \in DOMAIN cacheData :
              NormalPair(cacheData[k].title, cacheData[k].author)
                      = NormalPair(cacheLast.title, cacheLast.author)
                  => cacheLast.result = CacheHit(cacheData[k])

\* a get whose title differs from the stored one in case and padding has hit
CacheKeyIgnoresCaseAndPadding_Witness ==
    /\ cacheLast.op = "get"
    /\ cacheLast.result.hit
    /\ cacheLast.result.entry.title # cacheLast.title
    /\ Lower(cacheLast.result.entry.title) # Lower(cacheLast.title)
    /\ Strip(cacheLast.title) # cacheLast.title

----------------------------------------------------------------------------
(* Claims about fetch_book_details *)

\* the entries of a cache file stored for the same normalized pair
EntriesFor(file, title, author) ==
    {e \in {file[k] : k \in DOMAIN file} :
        NormalPair(e.title, e.author) = NormalPair(title, author)}

\* C11: with caching enabled and an entry in the cache for the normalized
\* (title, author), fetch_book_details returns that entry's genre and year,
\* makes no request, and leaves the cache as it was
C11_CacheHitAnswersWithoutRequest ==
    (fetchPc # "idle" /\ fetchUseCache) =>
        \A e \in EntriesFor(fetchFile0, fetchBook.title, fetchBook.author) :
            /\ fetchPc \in {"call", "returned", "enriched", "inferred"}
            /\ fetchRequests = 0
            /\ cacheFile = fetchFile0
            /\ fetchPc # "call" =>
                  /\ fetchReturn = Details(e.genre, e.year)
                  /\ fetchLoaded = fetchFile0

\* a call whose title differs from the stored one in case and padding has
\* returned the stored genre and year
C11_Witness ==
    /\ fetchPc = "returned"
    /\ fetchUseCache
    /\ fetchBook.title = <<" ", "A">>
    /\ \E e \in EntriesFor(fetchFile0, fetchBook.title, fetchBook.author) :
          e.title = <<"a">> /\ fetchReturn = Details(Fiction, Year2001)

\* the responses for which fetch_book_details reports that nothing was found
NothingFound(r) ==
    \/ r.kind = "exception"
    \/ /\ r.kind = "response"
       /\ \/ r.status # 200
          \/ r.body = "json" /\ (r.totalItems = 0 \/ ~r.hasItem \/ ~r.hasInfo)

\* C12: fetch_book_details returns None and never raises when the title or
\* the author is empty, the request fails, the status is not 200, the
\* response reports zero results or has no items, or the first item has no
\* volumeInfo; with an empty title or author it returns before consulting
\* the cache or the network
C12_NothingFoundReturnsNone ==
    /\ (fetchPc \notin {"idle", "call"} /\ (fetchBook.title = <<>> \/ fetchBook.author = <<>>)) =>
          /\ fetchPc \in {"returned", "enriched", "inferred"}
          /\ fetchReturn = NoDetails
          /\ ~fetchConsulted
          /\ fetchRequests = 0
          /\ cacheFile = fetchFile0
    /\ (fetchResponse.kind # "none" /\ NothingFound(fetchResponse)) =>
          /\ fetchPc \in {"returned", "enriched", "inferred"}
          /\ fetchReturn = NoDetails

\* a request answered with status 500 and a body that is not JSON has
\* returned None
C12_Witness ==
    /\ fetchPc = "returned"
    /\ fetchResponse.kind = "response"
    /\ fetchResponse.status = 500
    /\ fetchResponse.body = "invalid"
    /\ fetchReturn = NoDetails

\* a response with at least one item that carries volumeInfo
SuccessfulLookup(r) ==
    /\ r.kind = "response"
    /\ r.status = 200
    /\ r.body = "json"
    /\ r.totalItems # 0
    /\ r.hasItem
    /\ r.hasInfo

FirstCategoryOrUnknown(r) ==
    IF r.hasCategories /\ r.categories # <<>> THEN r.categories[1] ELSE UnknownGenre

YearPrefixOrDefault(r) ==
    IF r.hasDate THEN SubSeq(r.publishedDate, 1, 4) ELSE UnknownYear

\* C13: on a lookup with an item carrying volumeInfo, fetch_book_details
\* returns the first listed category ('Unknown Genre' when none is listed)
\* and the 4-digit year prefix of publishedDate ('0000' when absent), and
\* with caching enabled the result is set in the cache under the
\* (title, author) key before it is returned
C13_SuccessReturnsFirstCategoryAndYear ==
    (fetchResponse.kind # "none" /\ SuccessfulLookup(fetchResponse)) =>
        /\ fetchPc \in {"returned", "enriched", "inferred"}
        /\ fetchReturn = Details(FirstCategoryOrUnknown(fetchResponse),
                                 YearPrefixOrDefault(fetchResponse))
        /\ fetchUseCache =>
              LET key == GenerateKey(fetchBook.title, fetchBook.author)
              IN  /\ key \in DOMAIN fetchLoaded
                  /\ fetchLoaded[key].genre = fetchReturn.genre
                  /\ fetchLoaded[key].year = fetchReturn.year

\* C14: when the fetcher returns details, a genre other than
\* 'Unknown Genre' and a year other than '0000' that the audiobook already
\* has are not replaced by the fetched values
C14_EnrichmentFillsOnlyUnknown ==
    (fetchPc = "enriched" /\ fetchReturn.kind = "details") =>
        /\ fetchBook.genre # UnknownGenre => fetchAfter.genre = fetchBook.genre
        /\ fetchBook.year # UnknownYear => fetchAfter.year = fetchBook.year

----------------------------------------------------------------------------
(* get_target_path called on its own: audiobookcleanr/models.py *)

MaxStructureLen == 2

StructureFields ==
    {"author", "title", "genre", "year", "narrator", "series_name",
     "source_path", "is_multipart"}

Structures ==
    UNION {[1..n -> StructureFields] : n \in 0..MaxStructureLen}

PathTexts == { <<"K">>, <<" ", "K">>, <<"a", ":", "b">>, <<"?">>, <<".", ".">> }

PathBooks ==
    { [found |-> TRUE, author |-> a, title |-> t, genre |-> g, year |-> UnknownYear] :
        a \in PathTexts, t \in {<<"M">>, <<"a", "/", "b">>}, g \in {UnknownGenre, Mystery} }

NamingWithYear ==
    <<Field("title"), Lit(<<" ", "(">>), Field("year"), Lit(<<")">>)>>

PathInit ==
    /\ pathCall \in { [pc |-> "call", book |-> b, naming |-> n, structure |-> s] :
                        b \in PathBooks, n \in {Naming, NamingWithYear}, s \in Structures }

\* lines 36-53 of get_target_path
TargetPathCall ==
    /\ pathCall.pc = "call"
    /\ pathCall' =
          [pc |-> "done", book |-> pathCall.book, naming |-> pathCall.naming,
           structure |-> pathCall.structure,
           result |-> IF TargetPathRaises(pathCall.structure)
                      THEN [kind |-> "raises"]
                      ELSE [kind |-> "path",
                            parts |-> get_target_path(pathCall.book, pathCall.naming,
                                                      pathCall.structure)]]
    /\ UNCHANGED <<parserVars, sanVars, cacheVars, orchVars, fetchVars, cliRun,
                   inferCall, scanCall, tagCall>>

InitTarget ==
    PathInit /\ ParserIdle /\ SanIdle /\ CacheIdle /\ OrchIdle /\ FetchIdle /\ CliIdle
        /\ InferIdle /\ ScanIdle /\ TagIdle

SpecTarget == InitTarget /\ [][TargetPathCall]_vars

\* the component the claim gives a structure field: the sanitized value of
\* the field, 'Unknown <FieldName>' for a field the audiobook does not have
ClaimedComponent(book, field) ==
    IF field \in TextAttributes
    THEN sanitize_filename(FieldValue(book, field))
    ELSE UnknownPrefix \o TitleCase(FieldName(field))

\* C15: get_target_path returns base / s1 / ... / sn / name, si the
\* sanitized value of the i-th structure field and name the naming template
\* formatted with the sanitized fields; a field the audiobook does not have
\* gives 'Unknown <FieldName>', and the call fails for no structure field
\* name
C15_TargetPathNeverFails ==
    pathCall.pc = "done" =>
        /\ pathCall.result.kind = "path"
        /\ pathCall.result.parts =
              SelectSeq([i \in 1..Len(pathCall.structure) |->
                            ClaimedComponent(pathCall.book, pathCall.structure[i])]
                        \o <<Format(pathCall.naming, pathCall.book)>>,
                        IsKeptComponent)

----------------------------------------------------------------------------
(* The entry points: audiobookz_organizer/cli.py and Organize.py *)

\* what the log option names before the run: no option, a file in a
\* directory that does not exist, a new file in an existing directory, or
\* an existing file
LogOptions ==
    { [given |-> FALSE, dirExists |-> FALSE, fileExists |-> FALSE],
      [given |-> TRUE, dirExists |-> FALSE, fileExists |-> FALSE],
      [given |-> TRUE, dirExists |-> TRUE, fileExists |-> FALSE],
      [given |-> TRUE, dirExists |-> TRUE, fileExists |-> TRUE] }

CliInit ==
    cliRun \in { [pc |-> "start", entry |-> e, inputGiven |-> g, inputKind |-> k,
                  log |-> IF e = "cli" THEN l
                          ELSE [given |-> FALSE, dirExists |-> FALSE, fileExists |-> FALSE],
                  commit |-> c, prompted |-> FALSE, created |-> {},
                  message |-> "none", exit |-> "none", organizeCalled |-> FALSE] :
                    e \in {"cli", "script"}, g \in BOOLEAN,
                    k \in {"missing", "file", "dir"}, l \in LogOptions, c \in BOOLEAN }

CliUnchanged ==
    UNCHANGED <<parserVars, sanVars, cacheVars, orchVars, fetchVars, pathCall,
                inferCall, scanCall, tagCall>>

\* args = parse_args()
CliParseArgs ==
    /\ cliRun.pc = "start"
    /\ cliRun' = [cliRun EXCEPT !.pc = IF cliRun.entry = "cli" THEN "logger" ELSE "path"]
    /\ CliUnchanged

\* cli.py lines 48-49: setup_logger(log_file), which with a log file makes
\* its directory and opens the file for appending
CliSetupLogger(mkdirOk) ==
    /\ cliRun.pc = "logger"
    /\ IF ~cliRun.log.given
       THEN cliRun' = [cliRun EXCEPT !.pc = "path"]
       ELSE IF ~cliRun.log.dirExists /\ ~mkdirOk
       THEN cliRun' = [cliRun EXCEPT !.pc = "ended", !.exit = "exception"]
       ELSE cliRun' = [cliRun EXCEPT
                          !.pc = "path",
                          !.created = (IF cliRun.log.dirExists THEN {} ELSE {"log_dir"})
                                      \cup (IF cliRun.log.fileExists THEN {} ELSE {"log_file"})]
    /\ CliUnchanged

\* the input path is taken from --input or asked for, then checked
CliCheckPath ==
    /\ cliRun.pc = "path"
    /\ cliRun' = [cliRun EXCEPT
                     !.prompted = ~cliRun.inputGiven,
                     !.pc = IF cliRun.inputKind = "dir" THEN "organize" ELSE "ended",
                     !.message = IF cliRun.inputKind = "dir" THEN "none" ELSE "invalid_path",
                     !.exit = IF cliRun.inputKind = "dir" THEN "none"
                              ELSE IF cliRun.entry = "cli" THEN "system_exit"
                              ELSE "returned"]
    /\ CliUnchanged

\* the call of organize_audiobooks that ends main
CliOrganize ==
    /\ cliRun.pc = "organize"
    /\ cliRun' = [cliRun EXCEPT !.pc = "ended", !.organizeCalled = TRUE, !.exit = "returned"]
    /\ CliUnchanged

CliNext ==
    \/ CliParseArgs
    \/ \E mkdirOk \in BOOLEAN : CliSetupLogger(mkdirOk)
    \/ CliCheckPath
    \/ CliOrganize

InitCli ==
    CliInit /\ ParserIdle /\ SanIdle /\ CacheIdle /\ OrchIdle /\ FetchIdle /\ PathIdle
        /\ InferIdle /\ ScanIdle /\ TagIdle

SpecCli == InitCli /\ [][CliNext]_vars

\* C16: when the input path does not exist or is not a directory, the entry
\* point ends with the error message, having created no directory and no
\* file (a log file or log directory included), and organize_audiobooks is
\* never called
C16_InvalidPathAbortsBeforeIO ==
    (cliRun.pc # "idle" /\ cliRun.inputKind # "dir") =>
        /\ cliRun.created = {}
        /\ ~cliRun.organizeCalled
        /\ cliRun.pc = "ended" => cliRun.message = "invalid_path"

----------------------------------------------------------------------------
(* Claims about the worker pool of organize_audiobooks *)

\* two source folders of the run that resolve to the same target path
SharedTarget(f, g) ==
    /\ f # g
    /\ Resolvable(f)
    /\ Resolvable(g)
    /\ PlannedTarget(f) = PlannedTarget(g)

ReportedMoved(f) ==
    pc[f] = "done" /\ result[f].kind = "message" /\ result[f].outcome = "moved"

\* C17: in commit mode, of two source folders that resolve to the same
\* target path at most one is reported MOVED, the other ends
\* Skipped(Target exists) or Error with its source folder in place, and the
\* folder moved to the target is never replaced
C17_SharedTargetMovedOnce ==
    cfg.commit =>
        \A f, g \in run :
            (SharedTarget(f, g) /\ ReportedMoved(f)) =>
                /\ ~ReportedMoved(g)
                /\ outBooks[target[f]] = MovedFolder(f)
                /\ pc[g] = "done" =>
                      /\ result[g].outcome \in {"skipped_target_exists", "error"}
                      /\ g \in inputDir

\* C18: under concurrent fetches by the folder tasks an entry that has been
\* written to the JSON cache file is never lost: every key of the persisted
\* file is still a key of it after any step of any task
C18_PersistedEntryNeverLost ==
    [][\A k \in DOMAIN cacheFile : k \in DOMAIN cacheFile']_vars

----------------------------------------------------------------------------
(* Claims about the cache as a store *)

KeyOfSet(i) == GenerateKey(cacheSets[i].title, cacheSets[i].author)

\* the keys set since the last clear
KeysSet == {KeyOfSet(i) : i \in 1..Len(cacheSets)}

\* the last set call made for a key
LastSetOf(k) == cacheSets[SetMax({i \in 1..Len(cacheSets) : KeyOfSet(i) = k})]

\* C19: the cache holds one entry for each key set since the last clear
\* and no other; the entry is the one the last set for its key built
\* (genre, year, cached_at, title and author all of that call); size()
\* returns the number of distinct keys set since the last clear, and a get
\* made when nothing was set since the last clear returns nothing
C19_OneEntryPerKey ==
    /\ DOMAIN cacheData = KeysSet
    /\ \A k \in KeysSet :
          cacheData[k] = CacheEntry(LastSetOf(k).title, LastSetOf(k).author,
                                    LastSetOf(k).metadata, LastSetOf(k).at)
    /\ cacheLast.op = "size" => cacheLast.result = Cardinality(KeysSet)
    /\ (cacheLast.op = "get" /\ cacheSets = <<>>) => cacheLast.result = CacheMiss

\* two sets with different metadata and differently spelled titles were
\* made for one key, and size() then returned 1
C19_Witness ==
    /\ cacheLast.op = "size"
    /\ cacheLast.result = 1
    /\ Len(cacheSets) = 2
    /\ cacheSets[1].metadata # cacheSets[2].metadata
    /\ cacheSets[1].title # cacheSets[2].title

\* the outcomes a folder can end with: Moved, Skipped(Target exists),
\* Skipped(no metadata), the dry-run report, and the reported Error
ListedOutcome(r) ==
    \/ /\ r.kind = "message"
       /\ r.outcome \in {"moved", "skipped_target_exists", "skipped_no_metadata", "would_move"}
    \/ /\ r.kind = "process_error"
       /\ r.outcome = "error"

\* C20, the part a finite run settles: a folder whose task has ended has
\* one of the listed outcomes, and organize_audiobooks has ended only when
\* the task of every folder has
C20_EveryFolderEndsWithListedOutcome ==
    /\ \A f \in run : pc[f] = "done" => ListedOutcome(result[f])
    /\ Terminated => \A f \in run : pc[f] = "done"

\* the stages in the order of _process_folder
StageRank(stage) ==
    CASE stage = "pending" -> 0
      [] stage = "fetch" -> 1
      [] stage = "request" -> 2
      [] stage = "tags" -> 3
      [] stage = "target" -> 4
      [] stage = "mkdir" -> 5
      [] stage = "rename" -> 6
      [] stage = "done" -> 7

\* What does hold of the stages: a task only moves forward through them,
\* and once it has ended its result stays
StagesInOrder ==
    [][\A f \in run :
          /\ StageRank(pc'[f]) >= StageRank(pc[f])
          /\ pc[f] = "done" => result'[f] = result[f]]_vars

----------------------------------------------------------------------------
(* Claims about metadata resolution and genre inference in _process_folder *)

\* the first supported file of a folder whose tags give an author and an
\* album
TaggedFiles(f) ==
    {i \in 1..Len(Catalog[f].files) :
        /\ Lower(Catalog[f].files[i].ext) \in SUPPORTED_EXTENSIONS
        /\ Catalog[f].files[i].opens = "audio"
        /\ Catalog[f].files[i].tags.album # <<>>
        /\ (Catalog[f].files[i].tags.artist # <<>>
            \/ Catalog[f].files[i].tags.albumartist # <<>>)}

NameParses(f) == parse_folder(Catalog[f].name).found

\* C21: a folder is resolved from its embedded tags when they yield
\* something and from its name only when they yield nothing; when neither
\* yields anything the folder ends Skipped(Could not determine metadata)
\* with no fetch, tag write, mkdir or rename, and stays as it was at its
\* source path
C21_TagsFirstThenName ==
    \A f \in run :
        /\ (pc[f] # "pending" /\ TaggedFiles(f) # {}) =>
              LET tags == Catalog[f].files[SetMin(TaggedFiles(f))].tags
              IN  /\ audiobook[f].found
                  /\ audiobook[f].title = Strip(tags.album)
                  /\ audiobook[f].author =
                        Strip(IF tags.artist # <<>> THEN tags.artist ELSE tags.albumartist)
        /\ (pc[f] # "pending" /\ TaggedFiles(f) = {} /\ NameParses(f)) =>
              /\ audiobook[f].found
              /\ audiobook[f].title = parse_folder(Catalog[f].name).title
              /\ audiobook[f].author = parse_folder(Catalog[f].name).author
        /\ (TaggedFiles(f) = {} /\ ~NameParses(f)) =>
              /\ pc[f] \in {"pending", "done"}
              /\ pc[f] = "done" =>
                    result[f] = [kind |-> "message", outcome |-> "skipped_no_metadata",
                                 text |-> SkippedPrefix \o Catalog[f].name \o NoMetadataSuffix]
              /\ f \in inputDir
              /\ srcFiles[f] = Catalog[f].files
              /\ loaded[f] = EmptyDict
              /\ updated[f] = 0
              /\ target[f] = <<>>
              /\ \A p \in DOMAIN outBooks : outBooks[p].who # f

\* a run has returned in which one folder, whose name parses, was resolved
\* from its tags and another, with neither, was skipped
C21_Witness ==
    /\ mainState = "returned"
    /\ \E f \in run : TaggedFiles(f) # {} /\ NameParses(f) /\ audiobook[f].found
    /\ \E f \in run : TaggedFiles(f) = {} /\ ~NameParses(f)
                      /\ result[f].outcome = "skipped_no_metadata"

\* C22: genre inference leaves an audiobook whose genre is known after
\* enrichment as it is; it changes the genre only from 'Unknown Genre' to
\* the genre it infers, which is not 'Unknown Genre'; title, author and
\* year are never changed by it
C22_InferenceOnlyFillsUnknownGenre ==
    fetchPc = "inferred" =>
        /\ fetchAfter.genre # UnknownGenre => fetchInferred = fetchAfter
        /\ fetchInferred.title = fetchAfter.title
        /\ fetchInferred.author = fetchAfter.author
        /\ fetchInferred.year = fetchAfter.year
        /\ fetchInferred.genre # fetchAfter.genre =>
              /\ fetchAfter.genre = UnknownGenre
              /\ fetchInferred.genre # UnknownGenre

\* an audiobook with title 'War' kept the genre 'Fiction' the fetcher gave
\* it, though inference on the title gives 'History'
C22_Witness ==
    /\ fetchPc = "inferred"
    /\ fetchBook.title = <<"W", "a", "r">>
    /\ fetchBook.genre = UnknownGenre
    /\ fetchAfter.genre = Fiction
    /\ fetchInferred.genre = Fiction
    /\ infer_genre_from_text(fetchAfter.title, fetchAfter.author, <<>>) # UnknownGenre

----------------------------------------------------------------------------
(* infer_genre_from_text called on its own: audiobookcleanr/metadata.py *)

InferTitles ==
    { <<>>, <<"x">>, <<"W","a","r">>, <<"E","p","i","c"," ","W","a","r">>,
      <<"R","e","a","l"," ","L","i","f","e">>, <<"H","o","w">>,
      <<"T","r","u","e"," ","S","t","o","r","y">> }

InferAuthors ==
    { <<>>, <<"K">>, <<"t","o">>, <<"Y","A">>, <<"M","a","g","i","c">> }

InferDescriptions ==
    { <<>>, <<"a"," ","q","u","e","s","t">>, <<"w","a","r"," ","h","i","s","t","o","r","y">>,
      <<"T","E","E","N">> }

InferInit ==
    inferCall \in { [pc |-> "call", title |-> t, author |-> a, description |-> d] :
                      t \in InferTitles, a \in InferAuthors, d \in InferDescriptions }

\* lines 92-121 of infer_genre_from_text
InferGenreCall ==
    /\ inferCall.pc = "call"
    /\ inferCall' = [pc |-> "done", title |-> inferCall.title, author |-> inferCall.author,
                     description |-> inferCall.description,
                     result |-> infer_genre_from_text(inferCall.title, inferCall.author,
                                                      inferCall.description)]
    /\ UNCHANGED <<parserVars, sanVars, cacheVars, orchVars, fetchVars, pathCall, cliRun,
                   scanCall, tagCall>>

InitInfer ==
    InferInit /\ ParserIdle /\ SanIdle /\ CacheIdle /\ OrchIdle /\ FetchIdle /\ PathIdle
        /\ CliIdle /\ ScanIdle /\ TagIdle

SpecInfer == InitInfer /\ [][InferGenreCall]_vars

\* the text the keywords are looked for in
InferText ==
    Lower(inferCall.title \o <<" ">> \o inferCall.author \o <<" ">> \o inferCall.description)

\* the number of keywords of the i-th genre that occur in the text
KeywordsFound(i) ==
    Cardinality({j \in 1..Len(GenreKeywords[i].keywords) :
                    Contains(InferText, GenreKeywords[i].keywords[j])})

\* C23: infer_genre_from_text returns 'Unknown Genre' exactly when no
\* keyword of any of the twelve genres occurs in the lower-cased text of
\* title, author and description; otherwise it returns the genre with the
\* greatest number of keywords found, the first in table order of those
\* that share the maximum
C23_FirstGenreWithMaxScore ==
    inferCall.pc = "done" =>
        /\ Len(GenreKeywords) = 12
        /\ inferCall.result = UnknownGenre <=>
              \A i \in 1..Len(GenreKeywords) : KeywordsFound(i) = 0
        /\ inferCall.result # UnknownGenre =>
              \E i \in 1..Len(GenreKeywords) :
                  /\ inferCall.result = GenreKeywords[i].genre
                  /\ KeywordsFound(i) > 0
                  /\ \A j \in 1..Len(GenreKeywords) : KeywordsFound(j) <= KeywordsFound(i)
                  /\ \A j \in 1..(i - 1) : KeywordsFound(j) < KeywordsFound(i)

\* 'Real Life' has one keyword of Biography and one of Non-Fiction, and
\* the call returned Biography, which comes first
C23_Witness ==
    /\ inferCall.pc = "done"
    /\ inferCall.title = <<"R","e","a","l"," ","L","i","f","e">>
    /\ KeywordsFound(6) = KeywordsFound(12)
    /\ KeywordsFound(6) > 0
    /\ \A j \in 1..12 : KeywordsFound(j) <= KeywordsFound(6)
    /\ inferCall.result = GenreKeywords[6].genre

----------------------------------------------------------------------------
(* extract_metadata_from_folder called on its own, with subdirectories:    *)
(* audiobookcleanr/metadata.py                                             *)

MaxScanFiles == 2
MaxScanSubdirs == 2

\* A file as in the orchestrator, and one more thing mutagen.File or the
\* reading of the tags can do: "raises", an exception that is not a
\* MutagenError (IndexError on a tag with an empty value list, for one).
ScanFiles ==
    { [ext |-> Mp3, opens |-> "audio",
       tags |-> [NoTags EXCEPT !.artist = <<"W">>, !.album = <<" ", "M">>,
                               !.genre = Fiction, !.date = Date2001]],
      [ext |-> <<".","M","4","B">>, opens |-> "audio",
       tags |-> [NoTags EXCEPT !.albumartist = <<"K">>, !.album = <<"S">>]],
      [ext |-> Flac, opens |-> "audio", tags |-> [NoTags EXCEPT !.artist = <<"W">>]],
      [ext |-> Mp3, opens |-> "falsy", tags |-> NoTags],
      [ext |-> Mp3, opens |-> "error", tags |-> NoTags],
      [ext |-> Mp3, opens |-> "raises", tags |-> NoTags],
      [ext |-> Txt, opens |-> "error", tags |-> NoTags] }

ScanSubdirs ==
    { [name |-> "CD1", files |-> <<>>],
      [name |-> "CD1", files |-> <<CHOOSE x \in ScanFiles : x.ext = Mp3 /\ x.opens = "audio">>],
      [name |-> "1", files |-> <<CHOOSE x \in ScanFiles : x.opens = "raises">>],
      [name |-> "2", files |-> <<CHOOSE x \in ScanFiles : x.ext = Mp3 /\ x.opens = "error">>],
      [name |-> "x", files |-> <<CHOOSE x \in ScanFiles : x.ext = Txt,
                                 CHOOSE x \in ScanFiles : x.ext # Mp3 /\ x.tags.album # <<>>>>],
      [name |-> "2", files |-> <<>>] }

SeqsUpTo(S, n) == UNION {[1..k -> S] : k \in 0..n}

ScanInit ==
    scanCall \in { [pc |-> "list", files |-> fs, subdirs |-> ds, audio_files |-> <<>>,
                    pos |-> 1, opened |-> <<>>, result |-> [kind |-> "unset"]] :
                      fs \in SeqsUpTo(ScanFiles, MaxScanFiles),
                      ds \in SeqsUpTo(ScanSubdirs, MaxScanSubdirs) }

IsSupported(file) == Lower(file.ext) \in SUPPORTED_EXTENSIONS

\* _is_multipart_audiobook: several audio files, a subdirectory named like
\* a disc or part, or several subdirectories with numeric names
DiscLike(name) == name \in {"CD1"}
Numeric(name) == name \in {"1", "2"}
IsMultipart(audio_files, subdirs) ==
    \/ Len(audio_files) > 1
    \/ \E i \in 1..Len(subdirs) : DiscLike(subdirs[i].name)
    \/ Cardinality({i \in 1..Len(subdirs) : Numeric(subdirs[i].name)}) > 1

\* the scan of a folder that holds files only raises: a file whose reading
\* raises comes before any file that yields metadata
ScanRaises(files) ==
    \E i \in 1..Len(files) :
        /\ IsSupported(files[i])
        /\ files[i].opens = "raises"
        /\ \A j \in 1..(i - 1) : ~YieldsMetadata(files[j])

ScanUnchanged ==
    UNCHANGED <<parserVars, sanVars, cacheVars, orchVars, fetchVars, pathCall, cliRun,
                inferCall, tagCall>>

\* lines 23-30: the entries of the folder are sorted into audio files and
\* subdirectories
ScanList ==
    /\ scanCall.pc = "list"
    /\ scanCall' = [scanCall EXCEPT !.pc = "files",
                                    !.audio_files = SelectSeq(scanCall.files, IsSupported)]
    /\ ScanUnchanged

\* lines 33-57: one turn of the loop over the audio files
ScanFile ==
    /\ scanCall.pc = "files"
    /\ scanCall.pos <= Len(scanCall.audio_files)
    /\ LET file == scanCall.audio_files[scanCall.pos]
           read == [scanCall EXCEPT !.opened = Append(scanCall.opened, scanCall.pos)]
       IN  IF file.opens = "raises"
           THEN scanCall' = [read EXCEPT !.pc = "raised"]
           ELSE IF YieldsMetadata(file)
           THEN scanCall' =
                   [read EXCEPT !.pc = "returned",
                                !.result = [kind |-> "metadata",
                                            metadata |-> extract_metadata_from_folder(<<file>>),
                                            is_multipart |-> IsMultipart(scanCall.audio_files,
                                                                         scanCall.subdirs)]]
           ELSE scanCall' = [read EXCEPT !.pos = scanCall.pos + 1]
    /\ ScanUnchanged

\* lines 60-65: the subdirectories in turn, each scanned the same way
ScanSubdirectories ==
    /\ scanCall.pc = "files"
    /\ scanCall.pos > Len(scanCall.audio_files)
    /\ LET yielding == {i \in 1..Len(scanCall.subdirs) :
                           extract_metadata_from_folder(scanCall.subdirs[i].files).found}
           raising == {i \in 1..Len(scanCall.subdirs) : ScanRaises(scanCall.subdirs[i].files)}
           stop == yielding \cup raising
       IN  IF stop = {}
           THEN scanCall' = [scanCall EXCEPT !.pc = "returned", !.result = [kind |-> "none"]]
           ELSE IF SetMin(stop) \in raising
           THEN scanCall' = [scanCall EXCEPT !.pc = "raised"]
           ELSE scanCall' =
                   [scanCall EXCEPT
                       !.pc = "returned",
                       !.result = [kind |-> "metadata",
                                   metadata |-> extract_metadata_from_folder(
                                                   scanCall.subdirs[SetMin(stop)].files),
                                   is_multipart |-> TRUE]]
    /\ ScanUnchanged

ScanNext == ScanList \/ ScanFile \/ ScanSubdirectories

InitScan ==
    ScanInit /\ ParserIdle /\ SanIdle /\ CacheIdle /\ OrchIdle /\ FetchIdle /\ PathIdle
        /\ CliIdle /\ InferIdle /\ TagIdle

SpecScan == InitScan /\ [][ScanNext]_vars

\* a file that gives an author (artist, else album artist) and an album
GivesBoth(file) ==
    /\ IsSupported(file)
    /\ file.opens = "audio"
    /\ file.tags.album # <<>>
    /\ (file.tags.artist # <<>> \/ file.tags.albumartist # <<>>)

FirstGiving(files) == SetMin({i \in 1..Len(files) : GivesBoth(files[i])})
AnyGiving(files) == \E i \in 1..Len(files) : GivesBoth(files[i])

\* C24: the scan ends by returning, whatever the reading of a file raises;
\* it returns the author and title of the first direct audio file that
\* gives both and opens no file after it; else the metadata of the first
\* subdirectory that yields some, marked multi-part; else nothing
C24_ScanSkipsEveryUnreadableFile ==
    scanCall.pc \in {"returned", "raised"} =>
        /\ scanCall.pc = "returned"
        /\ LET audio == SelectSeq(scanCall.files, IsSupported)
               subs == {i \in 1..Len(scanCall.subdirs) : AnyGiving(scanCall.subdirs[i].files)}
           IN  IF AnyGiving(audio)
               THEN /\ scanCall.result.kind = "metadata"
                    /\ scanCall.result.metadata.title
                          = Strip(audio[FirstGiving(audio)].tags.album)
                    /\ scanCall.result.metadata.author
                          = Strip(FileAuthor(audio[FirstGiving(audio)]))
                    /\ scanCall.opened = [i \in 1..FirstGiving(audio) |-> i]
               ELSE IF subs # {}
               THEN LET files == scanCall.subdirs[SetMin(subs)].files
                    IN  /\ scanCall.result.kind = "metadata"
                        /\ scanCall.result.is_multipart
                        /\ scanCall.result.metadata.title
                              = Strip(files[FirstGiving(files)].tags.album)
                        /\ scanCall.result.metadata.author
                              = Strip(FileAuthor(files[FirstGiving(files)]))
               ELSE scanCall.result.kind = "none"

\* What does hold of the scan: a file that mutagen cannot open (MutagenError
\* or a false object) or that is not a supported audio file never ends it,
\* and when no file's reading raises another exception the result is as
\* C24 says
ScanSkipsMutagenErrors ==
    (/\ scanCall.pc \in {"returned", "raised"}
     /\ \A i \in 1..Len(scanCall.files) : scanCall.files[i].opens # "raises"
     /\ \A i \in 1..Len(scanCall.subdirs) : \A j \in 1..Len(scanCall.subdirs[i].files) :
           scanCall.subdirs[i].files[j].opens # "raises")
        => C24_ScanSkipsEveryUnreadableFile

----------------------------------------------------------------------------
(* AudioTagger.update_tags called on its own: audiobookcleanr/tagger.py    *)

MaxTagFiles == 2

\* the calls made one after the other on the same folder: a dry run, a
\* commit run, and a second commit run
TagPlan == <<TRUE, FALSE, FALSE>>

FullTags ==
    [title |-> <<"M">>, artist |-> <<"W">>, album |-> <<"M">>, albumartist |-> <<"W">>,
     genre |-> Fiction, date |-> Year2001]

\* files as in the scan; "raises" is an exception of mutagen.File that is
\* not a MutagenError
TagFiles ==
    { [ext |-> Mp3, opens |-> "audio", tags |-> FullTags],
      [ext |-> Mp3, opens |-> "audio",
       tags |-> [NoTags EXCEPT !.artist = <<"W">>, !.album = <<"M">>]],
      [ext |-> Flac, opens |-> "audio", tags |-> NoTags],
      [ext |-> Mp3, opens |-> "falsy", tags |-> NoTags],
      [ext |-> <<".","M","4","B">>, opens |-> "error", tags |-> NoTags],
      [ext |-> Mp3, opens |-> "raises", tags |-> NoTags],
      [ext |-> Txt, opens |-> "error", tags |-> NoTags] }

TagBooks ==
    { [found |-> TRUE, author |-> a, title |-> <<"M">>, genre |-> g, year |-> y] :
        a \in {<<"W">>, UnknownAuthor},
        g \in {Fiction, UnknownGenre, Unknown},
        y \in {Year2001, UnknownYear} }

NoStats ==
    [files_processed |-> 0, files_updated |-> 0, files_skipped |-> 0, errors |-> <<>>]

TagInit ==
    tagCall \in { [pc |-> "call", book |-> b, files |-> fs, files0 |-> fs, call |-> 1,
                   supported |-> <<>>, pos |-> 1, stats |-> NoStats, history |-> <<>>,
                   saves |-> <<>>, saveFailed |-> FALSE] :
                     b \in TagBooks, fs \in SeqsUpTo(TagFiles, MaxTagFiles) }

\* _get_supported_files: the positions of the supported files, in order
RECURSIVE SupportedFrom(_, _)
SupportedFrom(files, i) ==
    IF i > Len(files) THEN <<>>
    ELSE (IF IsSupported(files[i]) THEN <<i>> ELSE <<>>) \o SupportedFrom(files, i + 1)

\* for comparison: a writer that saves in a dry run too
FileResultSavingInDryRun(file, book, dry_run, saveOutcome) ==
    IF file.opens = "raises"
    THEN [outcome |-> "error", save |-> FALSE, tags |-> file.tags]
    ELSE IF ~FileNeedsUpdate(file, book)
    THEN [outcome |-> "skipped", save |-> FALSE, tags |-> file.tags]
    ELSE [outcome |-> "updated", save |-> TRUE, tags |-> TagsFor(file.tags, book)]

\* What _update_file_tags does with a file: it returns True ("updated"),
\* returns False ("skipped") or raises ("error"); save tells whether
\* audio.save() was called and tags what the file holds afterwards.
\* saveOutcome is what audio.save() does when it is called: "ok",
\* "mutagen_error" or "other_error".
FileResult(file, book, dry_run, saveOutcome) ==
    IF file.opens = "raises"
    THEN [outcome |-> "error", save |-> FALSE, tags |-> file.tags]
    ELSE IF ~FileNeedsUpdate(file, book)
    THEN [outcome |-> "skipped", save |-> FALSE, tags |-> file.tags]
    ELSE IF dry_run
    THEN [outcome |-> "updated", save |-> FALSE, tags |-> file.tags]
    ELSE IF saveOutcome = "ok"
    THEN [outcome |-> "updated", save |-> TRUE, tags |-> TagsFor(file.tags, book)]
    ELSE IF saveOutcome = "mutagen_error"
    THEN [outcome |-> "skipped", save |-> TRUE, tags |-> file.tags]
    ELSE [outcome |-> "error", save |-> TRUE, tags |-> file.tags]

\* for comparison: statistics that count a file that raised as processed
StatsCountingErrors(stats, outcome, i) ==
    [files_processed |-> stats.files_processed + 1,
     files_updated |-> stats.files_updated + (IF outcome = "updated" THEN 1 ELSE 0),
     files_skipped |-> stats.files_skipped + (IF outcome = "skipped" THEN 1 ELSE 0),
     errors |-> IF outcome = "error" THEN Append(stats.errors, i) ELSE stats.errors]

\* lines 58-66 of update_tags; an entry of errors is the position of the
\* file, which stands for its name
StatsAfter(stats, outcome, i) ==
    IF outcome = "error"
    THEN [stats EXCEPT !.errors = Append(stats.errors, i)]
    ELSE [stats EXCEPT !.files_processed = stats.files_processed + 1,
                       !.files_updated = stats.files_updated
                                            + (IF outcome = "updated" THEN 1 ELSE 0),
                       !.files_skipped = stats.files_skipped
                                            + (IF outcome = "skipped" THEN 1 ELSE 0)]

TagUnchanged ==
    UNCHANGED <<parserVars, sanVars, cacheVars, orchVars, fetchVars, pathCall, cliRun,
                inferCall, scanCall>>

\* AudioTagger(audiobook) and the first lines of update_tags
TagStart ==
    /\ tagCall.pc = "call"
    /\ tagCall' = [tagCall EXCEPT !.pc = "loop",
                                  !.supported = SupportedFrom(tagCall.files, 1),
                                  !.pos = 1,
                                  !.stats = NoStats,
                                  !.saves = <<>>]
    /\ TagUnchanged

\* one turn of the loop of update_tags
TagFile(saveOutcome) ==
    /\ tagCall.pc = "loop"
    /\ tagCall.pos <= Len(tagCall.supported)
    /\ LET i == tagCall.supported[tagCall.pos]
           r == FileResult(tagCall.files[i], tagCall.book, TagPlan[tagCall.call], saveOutcome)
       IN  tagCall' = [tagCall EXCEPT
                          !.pos = tagCall.pos + 1,
                          !.files = [tagCall.files EXCEPT ![i] =
                                        [tagCall.files[i] EXCEPT !.tags = r.tags]],
                          !.stats = StatsAfter(tagCall.stats, r.outcome, i),
                          !.saves = IF r.save THEN Append(tagCall.saves, i) ELSE tagCall.saves,
                          !.saveFailed = tagCall.saveFailed
                                            \/ (r.save /\ r.outcome # "updated")]
    /\ TagUnchanged

\* return stats, and the next call of the plan
TagReturn ==
    /\ tagCall.pc = "loop"
    /\ tagCall.pos > Len(tagCall.supported)
    /\ tagCall' = [tagCall EXCEPT
                      !.pc = IF tagCall.call < Len(TagPlan) THEN "returned" ELSE "done",
                      !.history = Append(tagCall.history, tagCall.stats)]
    /\ TagUnchanged

TagAgain ==
    /\ tagCall.pc = "returned"
    /\ tagCall' = [tagCall EXCEPT !.pc = "call", !.call = tagCall.call + 1]
    /\ TagUnchanged

TagNext ==
    \/ TagStart
    \/ \E saveOutcome \in {"ok", "mutagen_error", "other_error"} : TagFile(saveOutcome)
    \/ TagReturn
    \/ TagAgain

InitTag ==
    TagInit /\ ParserIdle /\ SanIdle /\ CacheIdle /\ OrchIdle /\ FetchIdle /\ PathIdle
        /\ CliIdle /\ InferIdle /\ ScanIdle

SpecTag == InitTag /\ [][TagNext]_vars

----------------------------------------------------------------------------
(* Claims about the tag writer *)

TagFields == {"title", "artist", "album", "albumartist", "genre", "date"}

Sentinels == {UnknownAuthor, UnknownTitle, UnknownGenre, UnknownYear}

\* C25: the placeholder values 'Unknown Author', 'Unknown Title',
\* 'Unknown Genre' and '0000' are never written into the tags of a file
\* and never make a file count as updated
C25_SentinelsNeverWritten ==
    tagCall.pc # "idle" =>
        /\ \A i \in 1..Len(tagCall.files) : \A field \in TagFields :
              tagCall.files[i].tags[field] \in Sentinels
                  => tagCall.files0[i].tags[field] = tagCall.files[i].tags[field]
        /\ \A i \in 1..Len(tagCall.files0) :
              (/\ tagCall.files0[i] = [ext |-> Mp3, opens |-> "audio", tags |-> FullTags]
               /\ tagCall.book.title = FullTags.title
               /\ tagCall.book.author \in {FullTags.artist, UnknownAuthor}
               /\ tagCall.book.genre \in {FullTags.genre, UnknownGenre}
               /\ tagCall.book.year \in {FullTags.date, UnknownYear})
                  => \A k \in 1..Len(tagCall.history) : tagCall.history[k].files_updated = 0


\* how many times position i stands in a sequence of positions
TimesIn(positions, i) == Cardinality({ k \in 1..Len(positions) : positions[k] = i })

\* the commit run has ended and its statistics are not yet consumed
CommitRunEnded == tagCall.pc = "returned" /\ tagCall.call = 2

----------------------------------------------------------------------------
(* Claims about the summary count and about failed moves *)

\* C28: the number of the summary line is the number of folders whose
\* outcome was Moved or would-move: a folder that ends Skipped or Error
\* is never counted, whatever its name holds
C28_SummaryCountsMovedOnly ==
    /\ processed_count
          = Cardinality({ f \in printed : result[f].outcome \in {"moved", "would_move"} })
    /\ mainState = "returned" =>
          summary = SummaryText(cfg.commit,
                       Cardinality({ f \in run : result[f].outcome \in {"moved", "would_move"} }))


\* the directories above the target of f that another folder of the run
\* made, or is about to use, for its own move
NeededByAnother(f, p) ==
    \E g \in run \ {f} :
        /\ p \in Ancestors(target[g])
        /\ pc[g] = "rename" \/ result[g].outcome = "moved"

\* C29: when the rename of a folder fails in commit mode, the folder is
\* still at its source path and no parent directory created for the
\* failed move is left in the destination tree
C29_FailedRenameLeavesNothingBehind ==
    \A f \in run :
        failedAt[f] = "rename" =>
            /\ f \in inputDir
            /\ \A path \in DOMAIN outBooks : outBooks[path] # MovedFolder(f)
            /\ \A p \in Ancestors(target[f]) \cap outParents :
                  p \in Parents0 \/ NeededByAnother(f, p)

\* What does hold of a failed rename: the source folder stays where it was
\* and no book folder of the destination tree changes
FailedRenameKeepsSource ==
    \A f \in run :
        failedAt[f] = "rename" =>
            /\ f \in inputDir
            /\ \A path \in DOMAIN outBooks : outBooks[path] # MovedFolder(f)


----------------------------------------------------------------------------
(* Claim about where the target path lies *)

\* C30: for a structure list over author, title, genre and year and a
\* naming template without path separator, the target path has exactly
\* len(structure) + 1 components below the base directory, none of them
\* empty, '.' or '..'
C30_TargetStrictlyBelowBase ==
    (/\ pathCall.pc = "done"
     /\ \A i \in 1..Len(pathCall.structure) : pathCall.structure[i] \in TextAttributes) =>
        /\ pathCall.result.kind = "path"
        /\ Len(pathCall.result.parts) = Len(pathCall.structure) + 1
        /\ \A k \in 1..Len(pathCall.result.parts) :
              pathCall.result.parts[k] \notin {<<>>, <<".">>, <<".", ".">>}

\* What does hold: a component never holds a path separator or another of
\* the characters sanitize_filename removes, and the path is never longer
\* than len(structure) + 1
TargetComponentsAreSanitized ==
    (pathCall.pc = "done" /\ pathCall.result.kind = "path") =>
        /\ Len(pathCall.result.parts) <= Len(pathCall.structure) + 1
        /\ \A k \in 1..Len(pathCall.result.parts) :
              \A j \in 1..Len(pathCall.result.parts[k]) :
                  IsLegalChar(pathCall.result.parts[k][j])

====
